---- MODULE Spec2Model ----
(***************************************************************************)
(* A state-machine model of the mruby/c bytecode executor of co2-demo:     *)
(* mrbc_vm_begin / mrbc_vm_run and the opcode handlers of vm.c, with the   *)
(* reference counting of value.c.  One VM executes one of a fixed set of   *)
(* bytecode programs; the timer tick and the allocator's capacity are the  *)
(* environment.                                                            *)
(***************************************************************************)
EXTENDS Integers, Sequences, FiniteSets, TLC

(* ------------------------------------------------------------------ *)
(* Sizes                                                               *)
(* ------------------------------------------------------------------ *)

\* vm_config.h: size of the register file of one VM.
MAX_REGS_SIZE == 100

\* Number of heap-cell slots and call-info slots the model tracks, and the
\* largest allocator capacity (in blocks) chosen by Init.
MaxCells == 4
MaxFrames == 3
MaxMem == 6

\* vm_config.h: maximum number of VMs.
MAX_VM_COUNT == 5

\* The VMs whose allocations, end and close the VM-table model follows (the
\* ids 1..MaxTracked), and the number of blocks of its allocator pool.
MaxTracked == 1
MaxBlocks == 2

(* ------------------------------------------------------------------ *)
(* Tagged values                                                       *)
(* ------------------------------------------------------------------ *)

\* The value tags in their order (mrbc_vtype).
TagOrder ==
  << "EMPTY", "NIL", "FALSE", "TRUE", "FIXNUM", "FLOAT", "SYMBOL",
     "CLASS", "OBJECT", "PROC", "ARRAY", "STRING", "RANGE", "HASH" >>

Tags == { TagOrder[i] : i \in DOMAIN TagOrder }

TagOrd(tt) == CHOOSE i \in DOMAIN TagOrder : TagOrder[i] = tt

\* The tags mrbc_dup / mrbc_dec_ref_counter treat as reference counted.
HeapTags == { "OBJECT", "PROC", "ARRAY", "STRING", "RANGE", "HASH" }

\* A value: tag and one payload word (integer, symbol id, class id or the
\* index of a heap cell).
Val(tt, v) == [tt |-> tt, v |-> v]

\* A slot cleared by memset(.., 0, ..).
ZeroValue == Val("EMPTY", 0)

mrbc_nil_value == Val("NIL", 0)

\* Truthiness as tested by op_jmpif / op_jmpnot: tt > MRBC_TT_FALSE.
Truthy(val) == TagOrd(val.tt) > TagOrd("FALSE")

(* ------------------------------------------------------------------ *)
(* Symbols                                                             *)
(* ------------------------------------------------------------------ *)

\* The symbol table: str_to_symid interns a name to its index.
SymNames ==
  << "Object", "NilClass", "FalseClass", "TrueClass", "Fixnum", "Float",
     "Symbol", "Proc", "Array", "String", "Range", "Hash",
     "(lambda)", "call", "C", "f", "g", "m", "nope", "+", "/", "*", "<", "X", "new", "B" >>

str_to_symid(name) == CHOOSE i \in DOMAIN SymNames : SymNames[i] = name

(* ------------------------------------------------------------------ *)
(* Classes                                                             *)
(* ------------------------------------------------------------------ *)

\* The built-in classes created by mrbc_init_class, in table order; a class
\* id is its index, 0 is the null pointer.
BuiltinClasses ==
  << "Object", "NilClass", "FalseClass", "TrueClass", "Fixnum", "Float",
     "Symbol", "Proc", "Array", "String", "Range", "Hash" >>

ClassId(name) == CHOOSE i \in DOMAIN BuiltinClasses : BuiltinClasses[i] = name

mrbc_class_object == ClassId("Object")

\* A class record: name symbol, superclass (0: none), head of the method
\* list (a PROC cell index, 0: empty).
ClassRec(sym, super, procs) == [sym_id |-> sym, super |-> super, procs |-> procs]

InitClasses ==
  [ i \in DOMAIN BuiltinClasses |->
      ClassRec(str_to_symid(BuiltinClasses[i]),
               IF i = mrbc_class_object THEN 0 ELSE mrbc_class_object,
               0) ]

(* ------------------------------------------------------------------ *)
(* The allocator pool: heap cells and call-info frames                 *)
(* ------------------------------------------------------------------ *)

CellIds == 1..MaxCells
FrameIds == 1..MaxFrames

\* A heap cell: the reference-count header (ref_count, tt) and the body of
\* whichever type it was allocated as.  data: the elements of an ARRAY, the
\* pairs of a HASH, <<first, last>> of a RANGE.  irep, c_func, func, sym_id,
\* next: the fields of a PROC (func names the host function of a native one).  cls: the class of an OBJECT.  A freed block keeps
\* its bytes: only used changes.
FreeCell ==
  [ used |-> FALSE, tt |-> "EMPTY", ref_count |-> 0, data |-> << >>,
    irep |-> "", c_func |-> 0, func |-> "", sym_id |-> 0, next |-> 0,
    cls |-> 0, excl |-> 0 ]

\* struct CALLINFO, plus whether the block is allocated.
FreeFrame ==
  [ used |-> FALSE, current_regs |-> 0, pc_irep |-> "", pc |-> 0, mid |-> 0,
    n_args |-> 0, target_class |-> 0, prev |-> 0 ]

\* Blocks of the pool in use.
UsedBlocks(cells, frames) ==
  Cardinality({ i \in CellIds : cells[i].used })
    + Cardinality({ i \in FrameIds : frames[i].used })

\* The heap as the reference-counting code sees it: the cells, and whether a
\* freed block was touched (dangling) or an assertion failed (abort).
Heap(cells, dangling, abort) == [cells |-> cells, dangling |-> dangling, abort |-> abort]

\* ref_count value at which mrbc_dup asserts.
REF_MAX == 255

\* mrbc_raw_free on a cell.
mrbc_raw_free(H, id) ==
  Heap([H.cells EXCEPT ![id].used = FALSE],
       H.dangling \/ ~H.cells[id].used, H.abort)

\* mrbc_dup
mrbc_dup(H, v) ==
  IF v.tt \in HeapTags
    THEN LET c == H.cells[v.v] IN
         IF c.ref_count = 0 \/ c.ref_count = REF_MAX
           THEN Heap(H.cells, H.dangling \/ ~c.used, TRUE)
           ELSE Heap([H.cells EXCEPT ![v.v].ref_count = @ + 1],
                     H.dangling \/ ~c.used, H.abort)
    ELSE H

\* mrbc_dec_ref_counter: decrement, and at zero run the destructor selected
\* by the value's tag, which releases the contained values and frees the cell.
RECURSIVE mrbc_dec_ref_counter(_, _)
RECURSIVE ReleaseAll(_, _)

ReleaseAll(H, vals) ==
  IF vals = << >> THEN H
  ELSE ReleaseAll(mrbc_dec_ref_counter(H, Head(vals)), Tail(vals))

mrbc_dec_ref_counter(H, v) ==
  IF v.tt \notin HeapTags THEN H
  ELSE LET c == H.cells[v.v] IN
    IF c.ref_count = 0
      THEN Heap(H.cells, H.dangling \/ ~c.used, TRUE)
      ELSE
        LET H1 == Heap([H.cells EXCEPT ![v.v].ref_count = @ - 1],
                       H.dangling \/ ~c.used, H.abort)
        IN IF c.ref_count - 1 # 0 THEN H1
           ELSE IF v.tt \in {"ARRAY", "HASH", "RANGE"}
                  THEN mrbc_raw_free(ReleaseAll(H1, c.data), v.v)
                  ELSE mrbc_raw_free(H1, v.v)

(* ------------------------------------------------------------------ *)
(* Bytecode                                                            *)
(* ------------------------------------------------------------------ *)

\* One decoded instruction: opcode and the operands A, B (also Bx, sBx, Bz)
\* and C.  For ENTER, a is the required-argument field and b the
\* optional-argument field of Ax.
Ins(op, a, b, c) == [op |-> op, a |-> a, b |-> b, c |-> c]

\* OP_RETURN's B operand.
OP_R_NORMAL == 0
OP_R_BREAK == 1

\* An IREP: code, register count, symbol names, child IREPs (names in
\* Ireps), literal pool.
Irep(code, nregs, syms, reps, pools) ==
  [code |-> code, nregs |-> nregs, syms |-> syms, reps |-> reps, pools |-> pools]

\* The loaded IREPs, by name.  "" is the null IREP pointer.
Ireps ==
  \* a = 1 + 2
  "add" :> Irep(<< Ins("LOADI", 1, 1, 0), Ins("LOADI", 2, 2, 0),
                   Ins("ADD", 1, 0, 1), Ins("STOP", 0, 0, 0) >>,
                3, << "+" >>, << >>, << >>)
  \* a = 1 + 2.0
  @@ "addf" :> Irep(<< Ins("LOADI", 1, 1, 0), Ins("LOADL", 2, 0, 0),
                       Ins("ADD", 1, 0, 1), Ins("STOP", 0, 0, 0) >>,
                    3, << "+" >>, << >>, << Val("FLOAT", 2) >>)
  \* a = [10, 20, 30]
  @@ "array" :> Irep(<< Ins("LOADI", 1, 10, 0), Ins("LOADI", 2, 20, 0),
                        Ins("LOADI", 3, 30, 0), Ins("ARRAY", 1, 1, 3),
                        Ins("LOADT", 2, 0, 0), Ins("STOP", 0, 0, 0) >>,
                     4, << >>, << >>, << >>)
  \* def f(x); x + 1; end; f(5)
  @@ "def" :> Irep(<< Ins("TCLASS", 1, 0, 0), Ins("LAMBDA", 2, 0, 0),
                      Ins("METHOD", 1, 0, 0), Ins("LOADSELF", 1, 0, 0),
                      Ins("LOADI", 2, 5, 0), Ins("SEND", 1, 0, 1),
                      Ins("STOP", 0, 0, 0) >>,
                   4, << "f" >>, << "f_body" >>, << >>)
  @@ "f_body" :> Irep(<< Ins("ENTER", 1, 0, 0), Ins("MOVE", 3, 1, 0),
                         Ins("LOADI", 4, 1, 0), Ins("ADD", 3, 0, 1),
                         Ins("RETURN", 3, OP_R_NORMAL, 0) >>,
                      5, << "+" >>, << >>, << >>)
  \* def g; 42; end; def f; g; end; f
  @@ "nest" :> Irep(<< Ins("TCLASS", 1, 0, 0), Ins("LAMBDA", 2, 0, 0),
                       Ins("METHOD", 1, 0, 0), Ins("TCLASS", 1, 0, 0),
                       Ins("LAMBDA", 2, 1, 0), Ins("METHOD", 1, 1, 0),
                       Ins("LOADSELF", 1, 0, 0), Ins("SEND", 1, 1, 0),
                       Ins("STOP", 0, 0, 0) >>,
                    4, << "g", "f" >>, << "m_body", "outer_body" >>, << >>)
  @@ "outer_body" :> Irep(<< Ins("LOADSELF", 1, 0, 0), Ins("SEND", 1, 0, 0),
                             Ins("RETURN", 1, OP_R_NORMAL, 0) >>,
                          3, << "g" >>, << >>, << >>)
  \* 5.nope
  @@ "nope" :> Irep(<< Ins("LOADI", 1, 5, 0), Ins("SEND", 1, 0, 0),
                       Ins("LOADI", 2, 7, 0), Ins("STOP", 0, 0, 0) >>,
                    3, << "nope" >>, << >>, << >>)
  \* a = [1]; b = a; a.nope with b in the block slot of the SEND
  @@ "alias" :> Irep(<< Ins("LOADI", 1, 1, 0), Ins("ARRAY", 1, 1, 1),
                        Ins("MOVE", 2, 1, 0), Ins("SEND", 1, 0, 0),
                        Ins("STOP", 0, 0, 0) >>,
                     3, << "nope" >>, << >>, << >>)
  \* 5.nope(&9): SENDB with a block slot that is neither nil nor a proc
  @@ "sendb" :> Irep(<< Ins("LOADI", 1, 5, 0), Ins("LOADI", 2, 9, 0),
                        Ins("SENDB", 1, 0, 0), Ins("STOP", 0, 0, 0) >>,
                     3, << "nope" >>, << >>, << >>)
  \* def m; 42; end, kept in a second register, then def m again
  @@ "redef" :> Irep(<< Ins("TCLASS", 1, 0, 0), Ins("LAMBDA", 2, 0, 0),
                        Ins("MOVE", 3, 2, 0), Ins("METHOD", 1, 0, 0),
                        Ins("LAMBDA", 2, 0, 0), Ins("METHOD", 1, 0, 0),
                        Ins("STOP", 0, 0, 0) >>,
                     4, << "m" >>, << "m_body" >>, << >>)
  @@ "m_body" :> Irep(<< Ins("LOADI", 1, 42, 0),
                         Ins("RETURN", 1, OP_R_NORMAL, 0) >>,
                      2, << >>, << >>, << >>)
  \* def m; 42; end; def m; 42; end; 5.nope
  @@ "redef2" :> Irep(<< Ins("TCLASS", 1, 0, 0), Ins("LAMBDA", 2, 0, 0),
                         Ins("METHOD", 1, 0, 0), Ins("LAMBDA", 2, 0, 0),
                         Ins("METHOD", 1, 0, 0), Ins("LOADI", 1, 5, 0),
                         Ins("SEND", 1, 1, 0), Ins("STOP", 0, 0, 0) >>,
                      4, << "m", "nope" >>, << "m_body" >>, << >>)
  \* branches, then a loop that never reaches STOP
  @@ "loop" :> Irep(<< Ins("LOADF", 1, 0, 0), Ins("JMPIF", 1, 5, 0),
                       Ins("JMPNOT", 1, 2, 0), Ins("STOP", 0, 0, 0),
                       Ins("NOP", 0, 0, 0), Ins("JMP", 0, -1, 0) >>,
                    2, << >>, << >>, << >>)
  \* a = [1]; abort
  @@ "abort" :> Irep(<< Ins("LOADI", 1, 1, 0), Ins("ARRAY", 1, 1, 1),
                        Ins("ABORT", 0, 0, 0) >>,
                     2, << >>, << >>, << >>)
  \* class C; def m; 42; end; end
  @@ "class" :> Irep(<< Ins("LOADNIL", 1, 0, 0), Ins("LOADNIL", 2, 0, 0),
                        Ins("CLASS", 1, 0, 0), Ins("EXEC", 1, 0, 0),
                        Ins("STOP", 0, 0, 0) >>,
                     3, << "C" >>, << "c_body" >>, << >>)
  @@ "c_body" :> Irep(<< Ins("TCLASS", 1, 0, 0), Ins("LAMBDA", 2, 0, 0),
                         Ins("METHOD", 1, 0, 0), Ins("LOADNIL", 1, 0, 0),
                         Ins("RETURN", 1, OP_R_NORMAL, 0) >>,
                      3, << "m" >>, << "m_body" >>, << >>)
  \* p = ->{ 42 }; p.call
  @@ "call" :> Irep(<< Ins("LAMBDA", 1, 0, 0), Ins("MOVE", 2, 1, 0),
                       Ins("SEND", 2, 0, 0), Ins("STOP", 0, 0, 0) >>,
                    4, << "call" >>, << "m_body" >>, << >>)
  \* r = 1..3
  @@ "range" :> Irep(<< Ins("LOADI", 1, 1, 0), Ins("LOADI", 2, 3, 0),
                        Ins("RANGE", 1, 1, 0), Ins("STOP", 0, 0, 0) >>,
                     3, << >>, << >>, << >>)
  \* x = [1]; y = [x]; y = nil; then [x] built into the slot that holds x
  @@ "arrays" :> Irep(<< Ins("LOADI", 1, 1, 0), Ins("ARRAY", 1, 1, 1),
                         Ins("MOVE", 2, 1, 0), Ins("ARRAY", 2, 2, 1),
                         Ins("LOADNIL", 2, 0, 0), Ins("MOVE", 2, 1, 0),
                         Ins("ARRAY", 1, 2, 1), Ins("STOP", 0, 0, 0) >>,
                      3, << >>, << >>, << >>)
  \* y = 10; p = ->{ y }; p.call; y = 20; p.call
  @@ "upvar" :> Irep(<< Ins("LOADI", 1, 10, 0), Ins("LAMBDA", 2, 0, 0),
                        Ins("MOVE", 3, 2, 0), Ins("SEND", 3, 0, 0),
                        Ins("LOADI", 1, 20, 0), Ins("MOVE", 3, 2, 0),
                        Ins("SEND", 3, 0, 0), Ins("STOP", 0, 0, 0) >>,
                     5, << "call" >>, << "y_body" >>, << >>)
  @@ "y_body" :> Irep(<< Ins("GETUPVAR", 2, 1, 0),
                         Ins("RETURN", 2, OP_R_NORMAL, 0) >>,
                      3, << >>, << >>, << >>)
  \* y = 10; def f; ->{ y }.call; end; f
  @@ "upvar2" :> Irep(<< Ins("LOADI", 1, 10, 0), Ins("TCLASS", 2, 0, 0),
                         Ins("LAMBDA", 3, 0, 0), Ins("METHOD", 2, 0, 0),
                         Ins("LOADSELF", 2, 0, 0), Ins("SEND", 2, 0, 0),
                         Ins("STOP", 0, 0, 0) >>,
                      4, << "f" >>, << "f_up" >>, << >>)
  @@ "f_up" :> Irep(<< Ins("LAMBDA", 1, 0, 0), Ins("SEND", 1, 0, 0),
                       Ins("RETURN", 1, OP_R_NORMAL, 0) >>,
                    3, << "call" >>, << "y_body" >>, << >>)
  \* 7 / 2; then 3 / 0
  @@ "div" :> Irep(<< Ins("LOADI", 1, 7, 0), Ins("LOADI", 2, 2, 0),
                      Ins("DIV", 1, 0, 1), Ins("LOADI", 2, 0, 0),
                      Ins("DIV", 1, 0, 1), Ins("LOADT", 3, 0, 0),
                      Ins("STOP", 0, 0, 0) >>,
                   4, << "/" >>, << >>, << >>)
  \* def f(a, b, c = 1); c; end; f
  @@ "few" :> Irep(<< Ins("TCLASS", 1, 0, 0), Ins("LAMBDA", 2, 0, 0),
                      Ins("METHOD", 1, 0, 0), Ins("LOADSELF", 1, 0, 0),
                      Ins("SEND", 1, 0, 0), Ins("STOP", 0, 0, 0) >>,
                   3, << "f" >>, << "few_body" >>, << >>)
  @@ "few_body" :> Irep(<< Ins("ENTER", 2, 1, 0), Ins("JMP", 0, 2, 0),
                           Ins("JMP", 0, 2, 0), Ins("LOADI", 3, 1, 0),
                           Ins("RETURN", 3, OP_R_NORMAL, 0) >>,
                        6, << >>, << >>, << >>)
  \* a jump whose target lies behind the last instruction
  @@ "jmpout" :> Irep(<< Ins("LOADI", 1, 1, 0), Ins("JMP", 0, 3, 0),
                         Ins("STOP", 0, 0, 0) >>,
                      2, << >>, << >>, << >>)
  \* Array; X
  @@ "const" :> Irep(<< Ins("GETCONST", 1, 0, 0), Ins("GETCONST", 2, 1, 0),
                        Ins("LOADT", 3, 0, 0), Ins("STOP", 0, 0, 0) >>,
                     4, << "Array", "X" >>, << >>, << >>)
  \* x = [1]; then a proc moved to R0 and invoked by CALL
  @@ "opcall" :> Irep(<< Ins("LOADI", 1, 1, 0), Ins("ARRAY", 1, 1, 1),
                         Ins("LAMBDA", 2, 0, 0), Ins("MOVE", 0, 2, 0),
                         Ins("CALL", 0, 0, 0), Ins("LOADT", 2, 0, 0),
                         Ins("STOP", 0, 0, 0) >>,
                      3, << >>, << "nil_body" >>, << >>)
  @@ "nil_body" :> Irep(<< Ins("LOADNIL", 2, 0, 0),
                           Ins("RETURN", 2, OP_R_NORMAL, 0) >>,
                        3, << >>, << >>, << >>)
  \* a method that returns its R0
  @@ "ret0" :> Irep(<< Ins("TCLASS", 1, 0, 0), Ins("LAMBDA", 2, 0, 0),
                       Ins("METHOD", 1, 0, 0), Ins("LOADSELF", 1, 0, 0),
                       Ins("SEND", 1, 0, 0), Ins("LOADT", 2, 0, 0),
                       Ins("STOP", 0, 0, 0) >>,
                    3, << "f" >>, << "self_body" >>, << >>)
  @@ "self_body" :> Irep(<< Ins("RETURN", 0, OP_R_NORMAL, 0) >>,
                         2, << >>, << >>, << >>)
  \* def f(a); 42; end; f([1])
  @@ "args" :> Irep(<< Ins("TCLASS", 1, 0, 0), Ins("LAMBDA", 2, 0, 0),
                       Ins("METHOD", 1, 0, 0), Ins("LOADSELF", 1, 0, 0),
                       Ins("LOADI", 2, 1, 0), Ins("ARRAY", 2, 2, 1),
                       Ins("SEND", 1, 0, 1), Ins("STOP", 0, 0, 0) >>,
                    4, << "f" >>, << "args_body" >>, << >>)
  @@ "args_body" :> Irep(<< Ins("ENTER", 1, 0, 0), Ins("LOADI", 3, 42, 0),
                            Ins("RETURN", 3, OP_R_NORMAL, 0) >>,
                         4, << >>, << >>, << >>)
  \* def f; ->{ break 7 }.call; end; f
  @@ "brk" :> Irep(<< Ins("TCLASS", 1, 0, 0), Ins("LAMBDA", 2, 0, 0),
                      Ins("METHOD", 1, 0, 0), Ins("LOADSELF", 1, 0, 0),
                      Ins("SEND", 1, 0, 0), Ins("LOADT", 3, 0, 0),
                      Ins("STOP", 0, 0, 0) >>,
                   4, << "f" >>, << "brk_f" >>, << >>)
  @@ "brk_f" :> Irep(<< Ins("LAMBDA", 1, 0, 0), Ins("SEND", 1, 0, 0),
                        Ins("RETURN", 1, OP_R_NORMAL, 0) >>,
                     3, << "call" >>, << "brk_body" >>, << >>)
  @@ "brk_body" :> Irep(<< Ins("LOADI", 1, 7, 0),
                           Ins("RETURN", 1, OP_R_BREAK, 0) >>,
                        2, << >>, << >>, << >>)
  \* def /(o); o; end; nil / [1]
  @@ "opdiv" :> Irep(<< Ins("TCLASS", 1, 0, 0), Ins("LAMBDA", 2, 0, 0),
                        Ins("METHOD", 1, 0, 0), Ins("LOADNIL", 1, 0, 0),
                        Ins("LOADI", 2, 1, 0), Ins("ARRAY", 2, 2, 1),
                        Ins("DIV", 1, 0, 1), Ins("LOADT", 3, 0, 0),
                        Ins("STOP", 0, 0, 0) >>,
                     4, << "/" >>, << "div_body" >>, << >>)
  @@ "div_body" :> Irep(<< Ins("ENTER", 1, 0, 0), Ins("MOVE", 3, 1, 0),
                           Ins("RETURN", 3, OP_R_NORMAL, 0) >>,
                        4, << >>, << >>, << >>)
  \* nil + 1, with the literal as operand C of ADDI
  @@ "addi" :> Irep(<< Ins("LOADI", 1, 5, 0), Ins("ADDI", 1, 0, 1),
                       Ins("LOADNIL", 1, 0, 0), Ins("ADDI", 1, 0, 1),
                       Ins("LOADT", 2, 0, 0), Ins("STOP", 0, 0, 0) >>,
                    3, << "+" >>, << >>, << >>)
  \* a class opened in a register that holds an array
  @@ "classleak" :> Irep(<< Ins("LOADI", 1, 1, 0), Ins("ARRAY", 1, 1, 1),
                            Ins("LOADNIL", 2, 0, 0), Ins("CLASS", 1, 0, 0),
                            Ins("STOP", 0, 0, 0) >>,
                         3, << "C" >>, << >>, << >>)
  \* def f(a, b = 1, c = 2); c; end; f(5, 6)
  @@ "opt" :> Irep(<< Ins("TCLASS", 1, 0, 0), Ins("LAMBDA", 2, 0, 0),
                      Ins("METHOD", 1, 0, 0), Ins("LOADSELF", 1, 0, 0),
                      Ins("LOADI", 2, 5, 0), Ins("LOADI", 3, 6, 0),
                      Ins("SEND", 1, 0, 2), Ins("STOP", 0, 0, 0) >>,
                   5, << "f" >>, << "opt_body" >>, << >>)
  @@ "opt_body" :> Irep(<< Ins("ENTER", 1, 2, 0), Ins("JMP", 0, 3, 0),
                           Ins("JMP", 0, 3, 0), Ins("JMP", 0, 3, 0),
                           Ins("LOADI", 2, 1, 0), Ins("LOADI", 3, 2, 0),
                           Ins("RETURN", 3, OP_R_NORMAL, 0) >>,
                        5, << >>, << >>, << >>)
  \* def m; 42; end; m(&9): SENDB of a defined method with a block slot
  \* that is neither nil nor a proc
  @@ "sendb2" :> Irep(<< Ins("TCLASS", 1, 0, 0), Ins("LAMBDA", 2, 0, 0),
                         Ins("METHOD", 1, 0, 0), Ins("LOADSELF", 1, 0, 0),
                         Ins("LOADI", 2, 9, 0), Ins("SENDB", 1, 0, 0),
                         Ins("LOADT", 3, 0, 0), Ins("STOP", 0, 0, 0) >>,
                      4, << "m" >>, << "m_body" >>, << >>)
  \* class B; def m; super; end; end; class C < B; end; C.new.m
  @@ "super" :> Irep(<< Ins("LOADNIL", 1, 0, 0), Ins("LOADNIL", 2, 0, 0),
                        Ins("CLASS", 1, 0, 0), Ins("EXEC", 1, 0, 0),
                        Ins("LOADNIL", 1, 0, 0), Ins("GETCONST", 2, 0, 0),
                        Ins("CLASS", 1, 1, 0), Ins("SEND", 1, 2, 0),
                        Ins("SEND", 1, 3, 0), Ins("LOADT", 2, 0, 0),
                        Ins("STOP", 0, 0, 0) >>,
                     4, << "B", "C", "new", "m" >>, << "b_body" >>, << >>)
  @@ "b_body" :> Irep(<< Ins("TCLASS", 1, 0, 0), Ins("LAMBDA", 2, 0, 0),
                         Ins("METHOD", 1, 0, 0), Ins("LOADNIL", 1, 0, 0),
                         Ins("RETURN", 1, OP_R_NORMAL, 0) >>,
                      3, << "m" >>, << "super_m" >>, << >>)
  @@ "super_m" :> Irep(<< Ins("SUPER", 1, 0, 0),
                          Ins("RETURN", 1, OP_R_NORMAL, 0) >>,
                       3, << >>, << >>, << >>)
  \* def f; f; a = b = c = d = e = g = h = i = nil; end; f
  @@ "recur" :> Irep(<< Ins("TCLASS", 1, 0, 0), Ins("LAMBDA", 2, 0, 0),
                        Ins("METHOD", 1, 0, 0), Ins("LOADSELF", 1, 0, 0),
                        Ins("SEND", 1, 0, 0), Ins("STOP", 0, 0, 0) >>,
                     3, << "f" >>, << "recur_f" >>, << >>)
  @@ "recur_f" :> Irep(<< Ins("LOADSELF", 9, 0, 0), Ins("SEND", 9, 0, 0),
                          Ins("LOADNIL", 8, 0, 0), Ins("MOVE", 7, 8, 0),
                          Ins("MOVE", 6, 8, 0), Ins("MOVE", 5, 8, 0),
                          Ins("MOVE", 4, 8, 0), Ins("MOVE", 3, 8, 0),
                          Ins("MOVE", 2, 8, 0), Ins("MOVE", 1, 8, 0),
                          Ins("RETURN", 8, OP_R_NORMAL, 0) >>,
                       11, << "f" >>, << >>, << >>)
  \* class C; class B; end; a = b = c = d = e = g = h = i = nil; end
  @@ "nested" :> Irep(<< Ins("LOADNIL", 1, 0, 0), Ins("LOADNIL", 2, 0, 0),
                         Ins("CLASS", 1, 0, 0), Ins("EXEC", 1, 0, 0),
                         Ins("STOP", 0, 0, 0) >>,
                      3, << "C" >>, << "nc_body" >>, << >>)
  @@ "nc_body" :> Irep(<< Ins("LOADNIL", 9, 0, 0), Ins("LOADNIL", 10, 0, 0),
                          Ins("CLASS", 9, 0, 0), Ins("EXEC", 9, 0, 0),
                          Ins("LOADNIL", 8, 0, 0), Ins("MOVE", 7, 8, 0),
                          Ins("MOVE", 6, 8, 0), Ins("MOVE", 5, 8, 0),
                          Ins("MOVE", 4, 8, 0), Ins("MOVE", 3, 8, 0),
                          Ins("MOVE", 2, 8, 0), Ins("MOVE", 1, 8, 0),
                          Ins("RETURN", 8, OP_R_NORMAL, 0) >>,
                       11, << "B" >>, << "nb_body" >>, << >>)
  @@ "nb_body" :> Irep(<< Ins("LOADNIL", 1, 0, 0),
                          Ins("RETURN", 1, OP_R_NORMAL, 0) >>,
                       2, << >>, << >>, << >>)
  \* r = [1]..[2]
  @@ "arange" :> Irep(<< Ins("LOADI", 2, 1, 0), Ins("ARRAY", 2, 2, 1),
                         Ins("LOADI", 3, 2, 0), Ins("ARRAY", 3, 3, 1),
                         Ins("RANGE", 1, 2, 0), Ins("STOP", 0, 0, 0) >>,
                      4, << >>, << >>, << >>)
  \* an opcode the dispatcher does not know
  @@ "unknown" :> Irep(<< Ins("LOADI", 1, 1, 0), Ins("DEBUG", 1, 0, 0),
                          Ins("STOP", 0, 0, 0) >>,
                       2, << >>, << >>, << >>)
  \* code that does not end in STOP
  @@ "off" :> Irep(<< Ins("NOP", 0, 0, 0) >>, 1, << >>, << >>, << >>)

\* The programs a VM may be loaded with (root IREPs).
Programs ==
  { "add", "addf", "array", "def", "nest", "nope", "alias", "sendb", "redef", "redef2",
    "loop", "abort", "class", "call", "range", "unknown", "off", "arrays",
    "upvar", "upvar2", "div", "few", "jmpout", "const", "opcall", "ret0", "args", "brk", "opdiv", "addi", "classleak", "opt", "sendb2", "super",
    "recur", "nested", "arange" }

\* mrbc_get_irep_symbol followed by str_to_symid: the id of symbol n of an
\* IREP's symbol table.
IrepSym(irep, n) == str_to_symid(Ireps[irep].syms[n + 1])

(* ------------------------------------------------------------------ *)
(* The machine a handler works on                                      *)
(* ------------------------------------------------------------------ *)

\* A handler maps a machine to a machine: struct VM (vm), the pool (cells,
\* frames, its capacity mem_cap), the class table, the last line written to
\* the console, its return value (ret), and what went wrong inside it: a
\* freed block touched (dangling), an assertion or a null dereference
\* (abort), an allocation that got no memory (enomem), a loop that never
\* ends (hang); and, for the record, which kind of callee it entered
\* (entered: "script", "native", "exec", "call", "super", or "" for none).

H(M) == Heap(M.cells, M.dangling, M.abort)

WithH(M, h) == [M EXCEPT !.cells = h.cells, !.dangling = h.dangling, !.abort = h.abort]

SetReg(M, i, v) == [M EXCEPT !.vm.regs[i] = v]

\* mrbc_release(&vm->regs[i]): decrement, then mark the slot EMPTY (its
\* payload word stays).
mrbc_release(M, i) ==
  LET h == mrbc_dec_ref_counter(H(M), M.vm.regs[i])
  IN  [WithH(M, h) EXCEPT !.vm.regs[i].tt = "EMPTY"]

\* mrbc_dup(&vm->regs[i])
DupReg(M, i) == WithH(M, mrbc_dup(H(M), M.vm.regs[i]))

\* mrbc_release on each of the slots lo..hi, in ascending order: the slots
\* that hold a heap value are decremented in that order, and every slot ends
\* EMPTY.
RECURSIVE DecRefSlots(_, _, _)
DecRefSlots(h, regfile, S) ==
  IF S = {} THEN h
  ELSE LET i == CHOOSE x \in S : \A y \in S : x <= y
       IN  DecRefSlots(mrbc_dec_ref_counter(h, regfile[i]), regfile, S \ {i})

ReleaseRange(M, lo, hi) ==
  LET S == { i \in lo..hi : M.vm.regs[i].tt \in HeapTags }
      h == DecRefSlots(H(M), M.vm.regs, S)
  IN  [WithH(M, h) EXCEPT
         !.vm.regs = [ i \in DOMAIN M.vm.regs |->
                         IF lo <= i /\ i <= hi
                           THEN [M.vm.regs[i] EXCEPT !.tt = "EMPTY"]
                           ELSE M.vm.regs[i] ]]

\* The allocator: a request succeeds while the pool has a block left.
CanAlloc(M) == UsedBlocks(M.cells, M.frames) < M.mem_cap

FreeCellIds(M) == { i \in CellIds : ~M.cells[i].used }
FreeFrameIds(M) == { i \in FrameIds : ~M.frames[i].used }

\* The cell a successful allocation returns: the lowest free one (0: none).
NewCellId(M) ==
  IF CanAlloc(M) /\ FreeCellIds(M) # {}
    THEN CHOOSE i \in FreeCellIds(M) : \A j \in FreeCellIds(M) : i <= j
    ELSE 0

NewFrameId(M) ==
  IF CanAlloc(M) /\ FreeFrameIds(M) # {}
    THEN CHOOSE i \in FreeFrameIds(M) : \A j \in FreeFrameIds(M) : i <= j
    ELSE 0

\* mrbc_rproc_alloc: a PROC cell with ref_count 1.
ProcCell(name, c_func, func, irep) ==
  [ FreeCell EXCEPT !.used = TRUE, !.tt = "PROC", !.ref_count = 1,
                    !.sym_id = str_to_symid(name), !.c_func = c_func,
                    !.func = func, !.irep = irep ]

\* find_class_by_object
find_class_by_object(M, v) ==
  CASE v.tt = "CLASS"  -> v.v
    [] v.tt = "OBJECT" -> M.cells[v.v].cls
    [] v.tt = "NIL"    -> ClassId("NilClass")
    [] v.tt = "FALSE"  -> ClassId("FalseClass")
    [] v.tt = "TRUE"   -> ClassId("TrueClass")
    [] v.tt = "FIXNUM" -> ClassId("Fixnum")
    [] v.tt = "FLOAT"  -> ClassId("Float")
    [] v.tt = "SYMBOL" -> ClassId("Symbol")
    [] v.tt = "PROC"   -> ClassId("Proc")
    [] v.tt = "ARRAY"  -> ClassId("Array")
    [] v.tt = "STRING" -> ClassId("String")
    [] v.tt = "RANGE"  -> ClassId("Range")
    [] v.tt = "HASH"   -> ClassId("Hash")
    [] OTHER           -> mrbc_class_object

\* The walk of a method list from proc for the first proc named sym: m is
\* the proc found (0: none, -1: the list runs in a circle and the walk never
\* ends), walked the cells it read.
RECURSIVE FindInList(_, _, _, _)
FindInList(M, proc, sym, walked) ==
  IF proc = 0 THEN [m |-> 0, walked |-> walked]
  ELSE IF M.cells[proc].sym_id = sym THEN [m |-> proc, walked |-> walked \cup {proc}]
  ELSE IF proc \in walked THEN [m |-> -1, walked |-> walked]
  ELSE FindInList(M, M.cells[proc].next, sym, walked \cup {proc})

\* The class chain walk shared by find_method and op_super: the first proc
\* named sym from class cls upwards, with the class it was found in.
RECURSIVE FindFromClass(_, _, _, _)
FindFromClass(M, cls, sym, walked) ==
  IF cls = 0 THEN [m |-> 0, cls |-> 0, walked |-> walked]
  ELSE LET r == FindInList(M, M.classes[cls].procs, sym, {})
       IN IF r.m # 0 THEN [m |-> r.m, cls |-> cls, walked |-> walked \cup r.walked]
          ELSE FindFromClass(M, M.classes[cls].super, sym, walked \cup r.walked)

\* find_method
find_method(M, recv, sym) ==
  FindFromClass(M, find_class_by_object(M, recv), sym, {})

(* ------------------------------------------------------------------ *)
(* Call-info stack                                                     *)
(* ------------------------------------------------------------------ *)

\* mrbc_push_callinfo: returns without a frame when mrbc_alloc gives NULL.
mrbc_push_callinfo(M, mid, n_args) ==
  LET id == NewFrameId(M) IN
  IF id = 0 THEN [M EXCEPT !.enomem = TRUE]
  ELSE [M EXCEPT
          !.frames[id] = [ used |-> TRUE,
                           current_regs |-> M.vm.current_regs,
                           pc_irep |-> M.vm.pc_irep,
                           pc |-> M.vm.pc,
                           mid |-> mid,
                           n_args |-> n_args,
                           target_class |-> M.vm.target_class,
                           prev |-> M.vm.callinfo_tail ],
          !.vm.callinfo_tail = id]

\* mrbc_free(vm, callinfo)
FreeFrameBlock(M, id) ==
  [M EXCEPT !.frames[id].used = FALSE,
            !.dangling = M.dangling \/ ~M.frames[id].used]

(* ------------------------------------------------------------------ *)
(* Opcode handlers.  regs is vm->current_regs at dispatch, as an index *)
(* into the register file; vm.pc is already past the instruction.      *)
(* ------------------------------------------------------------------ *)

op_nop(M, code, regs) == M

op_move(M, code, regs) ==
  LET M1 == mrbc_release(M, regs + code.a)
      M2 == DupReg(M1, regs + code.b)
  IN  SetReg(M2, regs + code.a, M2.vm.regs[regs + code.b])

op_loadl(M, code, regs) ==
  LET M1 == mrbc_release(M, regs + code.a)
  IN  SetReg(M1, regs + code.a, Ireps[M.vm.pc_irep].pools[code.b + 1])

op_loadi(M, code, regs) ==
  SetReg(mrbc_release(M, regs + code.a), regs + code.a, Val("FIXNUM", code.b))

op_loadnil(M, code, regs) ==
  [mrbc_release(M, regs + code.a) EXCEPT !.vm.regs[regs + code.a].tt = "NIL"]

op_loadself(M, code, regs) ==
  LET M1 == mrbc_release(M, regs + code.a)
      M2 == DupReg(M1, regs)
  IN  SetReg(M2, regs + code.a, M2.vm.regs[regs])

op_loadt(M, code, regs) ==
  [mrbc_release(M, regs + code.a) EXCEPT !.vm.regs[regs + code.a].tt = "TRUE"]

op_loadf(M, code, regs) ==
  [mrbc_release(M, regs + code.a) EXCEPT !.vm.regs[regs + code.a].tt = "FALSE"]

\* The frame op_getupvar's loop ends at: n links back from callinfo (0 when
\* the loop went through a NULL link).
RECURSIVE UpFrame(_, _, _)
UpFrame(M, callinfo, n) ==
  IF callinfo = 0 THEN 0
  ELSE IF n = 0 THEN callinfo
  ELSE UpFrame(M, M.frames[callinfo].prev, n - 1)

op_getupvar(M, code, regs) ==
  LET ra == regs + code.a
      rb == code.b
      rc == code.c   \* UP
      \* find callinfo
      callinfo == UpFrame(M, M.vm.callinfo_tail, rc * 2 + 1)
  IN
  IF callinfo = 0 THEN [M EXCEPT !.abort = TRUE]
  ELSE
    LET up_regs == M.frames[callinfo].current_regs
        M0 == [M EXCEPT !.dangling = @ \/ ~M.frames[callinfo].used]
        M1 == mrbc_release(M0, ra)
        M2 == DupReg(M1, up_regs + rb)
    IN  SetReg(M2, ra, M2.vm.regs[up_regs + rb])

\* mrbc_get_const: the constant table holds the classes under their names
\* (mrbc_define_class enters each); no program here assigns a constant.
\* 0 is NULL.
mrbc_get_const(M, sym_id) ==
  LET named == { c \in DOMAIN M.classes : M.classes[c].sym_id = sym_id }
  IN  IF named = {} THEN 0 ELSE CHOOSE c \in named : TRUE

NameErrorLine(sym) ==
  [msg |-> "NameError: uninitialized constant", cls |-> 0, sym |-> sym]

op_getconst(M, code, regs) ==
  LET ra == regs + code.a
      sym_id == IrepSym(M.vm.pc_irep, code.b)
      M1 == mrbc_release(M, ra)
      v == mrbc_get_const(M1, sym_id)
  IN  IF v = 0
        THEN [M1 EXCEPT !.console = NameErrorLine(sym_id)]
        ELSE SetReg(M1, ra, Val("CLASS", v))

op_jmp(M, code, regs) == [M EXCEPT !.vm.pc = @ + code.b - 1]

op_jmpif(M, code, regs) ==
  IF Truthy(M.vm.regs[regs + code.a])
    THEN [M EXCEPT !.vm.pc = @ + code.b - 1]
    ELSE M

op_jmpnot(M, code, regs) ==
  IF ~Truthy(M.vm.regs[regs + code.a])
    THEN [M EXCEPT !.vm.pc = @ + code.b - 1]
    ELSE M

\* c_proc_call, the host function behind Proc#call: enters the proc's IREP
\* with the receiver's slot as the new register base.
c_proc_call(M, v, argc) ==
  LET M1 == mrbc_push_callinfo(M, 0, argc)
  IN  [M1 EXCEPT !.vm.pc = 0,
                 !.vm.pc_irep = M.cells[M.vm.regs[v].v].irep,
                 !.vm.current_regs = v,
                 !.entered = "native"]

\* c_object_new, the host function behind Object#new: an OBJECT cell of
\* the receiver class, ref_count 1, stored in the receiver's slot.
c_object_new(M, v, argc) ==
  LET id == NewCellId(M) IN
  IF id = 0 THEN [M EXCEPT !.enomem = TRUE]
  ELSE SetReg([M EXCEPT !.cells[id] =
                 [FreeCell EXCEPT !.used = TRUE, !.tt = "OBJECT",
                                  !.ref_count = 1, !.cls = M.vm.regs[v].v]],
              v, Val("OBJECT", id))

\* The "No method" line of op_send.
NoMethodLine(cls_sym, sym) == [msg |-> "No method", cls |-> cls_sym, sym |-> sym]

\* A faulty op_send: the block slot is set to nil, as OP_SEND does, and the
\* call is dropped.
op_send_block_to_nil(M, code, regs) ==
  [mrbc_release(M, regs + code.a + code.c + 1)
     EXCEPT !.vm.regs[regs + code.a + code.c + 1].tt = "NIL"]

\* A faulty op_send: the frame is pushed before the method is looked up.
op_send_push_first(M, code, regs) ==
  [mrbc_push_callinfo(M, IrepSym(M.vm.pc_irep, code.b), code.c)
     EXCEPT !.vm.current_regs = @ + code.a]

\* A faulty op_send: the receiver's slot is released as the result register.
op_send_release_recv(M, code, regs) == mrbc_release(M, regs + code.a)

op_send(M, code, regs) ==
  LET ra == code.a
      rc == code.c
      recv == M.vm.regs[regs + ra]
      bidx == ra + rc + 1
      blk == M.vm.regs[regs + bidx]
      \* Block param
      M0 == IF code.op = "SEND"
              THEN [mrbc_release(M, regs + bidx)
                      EXCEPT !.vm.regs[regs + bidx].tt = "NIL"]
              ELSE M
      sym_id == IrepSym(M.vm.pc_irep, code.b)
      found == find_method(M0, recv, sym_id)
      m == found.m
      M1 == [M0 EXCEPT !.dangling =
               @ \/ \E q \in found.walked : ~M0.cells[q].used]
  IN
  IF code.op = "SENDB" /\ blk.tt # "NIL" /\ blk.tt # "PROC" THEN M
  ELSE IF m = -1
    THEN [M1 EXCEPT !.hang = TRUE]
  ELSE IF m = 0
    THEN [M1 EXCEPT !.console =
            NoMethodLine(M1.classes[find_class_by_object(M1, recv)].sym_id, sym_id)]
  ELSE IF M1.cells[m].c_func # 0
    THEN \* m is C func
         IF M1.cells[m].func = "c_proc_call"
           THEN c_proc_call(M1, regs + ra, rc)
           ELSE ReleaseRange(IF M1.cells[m].func = "c_object_new"
                               THEN c_object_new(M1, regs + ra, rc)
                               ELSE M1,
                             regs + ra + 1, regs + bidx)
  ELSE \* m is Ruby method.
       LET M2 == mrbc_push_callinfo(M1, sym_id, rc)
       IN  [M2 EXCEPT !.vm.pc = 0,
                      !.vm.pc_irep = M1.cells[m].irep,
                      !.vm.current_regs = @ + ra,
                      !.entered = "script"]

op_super(M, code, regs) ==
  LET ra == regs + code.a
      rc == code.c
      \* copy self, same as LOADSELF
      M1 == mrbc_release(M, ra)
      M2 == DupReg(M1, regs)
      M3 == SetReg(M2, ra, M2.vm.regs[regs])
      self == M3.vm.regs[ra]
  IN
  IF M.vm.callinfo_tail = 0 \/ self.tt # "OBJECT" \/ self.v \notin CellIds
    THEN [M3 EXCEPT !.abort = TRUE]
  ELSE
    LET sym_id == M.frames[M.vm.callinfo_tail].mid
        \* find super method
        found == FindFromClass(M3, M3.classes[M3.cells[self.v].cls].super,
                               sym_id, {})
        m == found.m
        M4 == [M3 EXCEPT !.dangling =
                 @ \/ ~M3.cells[self.v].used
                   \/ \E q \in found.walked : ~M3.cells[q].used]
    IN
    IF m = -1 THEN [M4 EXCEPT !.hang = TRUE]
    ELSE IF m = 0 THEN M4   \* No super method
    ELSE
      LET \* Change class
          M5 == [M4 EXCEPT !.cells[self.v].cls = found.cls]
      IN
      IF M5.cells[m].c_func # 0
        THEN \* m is C func
             IF M5.cells[m].func = "c_proc_call"
               THEN c_proc_call(M5, ra, rc)
               ELSE ReleaseRange(IF M5.cells[m].func = "c_object_new"
                                   THEN c_object_new(M5, ra, rc)
                                   ELSE M5,
                                 ra + 1, ra + rc + 1)
        ELSE \* m is Ruby method.
             LET M6 == mrbc_push_callinfo(M5, sym_id, rc)
             IN  [M6 EXCEPT !.vm.pc = 0,
                            !.vm.pc_irep = M5.cells[m].irep,
                            !.vm.current_regs = @ + code.a,
                            !.entered = "super"]

op_call(M, code, regs) ==
  LET self == M.vm.regs[regs]
      M1 == mrbc_push_callinfo(M, 0, 0)
  IN  IF self.tt # "PROC" \/ self.v \notin CellIds
        THEN [M EXCEPT !.abort = TRUE]
        ELSE \* jump to proc
             [M1 EXCEPT !.vm.pc = 0,
                        !.vm.pc_irep = M.cells[self.v].irep,
                        !.dangling = @ \/ ~M.cells[self.v].used,
                        !.entered = "call"]

\* A faulty op_enter: pc is advanced by the number of arguments given.
op_enter_by_n_args(M, code, regs) ==
  IF code.b > 0
    THEN IF M.vm.callinfo_tail = 0
           THEN [M EXCEPT !.abort = TRUE]
           ELSE [M EXCEPT !.vm.pc = @ + M.frames[M.vm.callinfo_tail].n_args]
    ELSE M

op_enter(M, code, regs) ==
  LET def_args == code.b
      args == code.a
  IN  IF def_args > 0
        THEN IF M.vm.callinfo_tail = 0
               THEN [M EXCEPT !.abort = TRUE]
               ELSE [M EXCEPT !.vm.pc =
                       @ + M.frames[M.vm.callinfo_tail].n_args - args]
        ELSE M

\* The frames op_return's OP_R_BREAK loop frees, walking from callinfo while
\* it has a prev and still has the register base reg_top; ends with the
\* frame the loop stops at.
RECURSIVE BreakWalk(_, _, _)
BreakWalk(M, callinfo, reg_top) ==
  IF M.frames[callinfo].prev # 0 /\ reg_top = M.frames[callinfo].current_regs
    THEN BreakWalk(FreeFrameBlock(M, callinfo), M.frames[callinfo].prev, reg_top)
    ELSE [M |-> M, callinfo |-> callinfo]

\* A faulty op_return: the stacked arguments are not cleared.
op_return_keep_args(M, code, regs) ==
  LET ra == code.a
      M0 == mrbc_release(M, regs)
      M1 == [SetReg(M0, regs, M0.vm.regs[regs + ra])
               EXCEPT !.vm.regs[regs + ra].tt = "EMPTY"]
      callinfo == M.vm.callinfo_tail
  IN
  IF callinfo = 0 THEN [M1 EXCEPT !.abort = TRUE]
  ELSE
    LET f == M.frames[callinfo]
        M2 == [M1 EXCEPT !.vm.callinfo_tail = f.prev,
                         !.vm.current_regs = f.current_regs,
                         !.vm.pc_irep = f.pc_irep,
                         !.vm.pc = f.pc,
                         !.vm.target_class = f.target_class]
    IN  FreeFrameBlock(M2, callinfo)

op_return(M, code, regs) ==
  LET ra == code.a
      rb == code.b
      \* return value
      M0 == mrbc_release(M, regs)
      M1 == [SetReg(M0, regs, M0.vm.regs[regs + ra])
               EXCEPT !.vm.regs[regs + ra].tt = "EMPTY"]
      callinfo == M.vm.callinfo_tail
  IN
  IF rb = OP_R_NORMAL THEN
    IF callinfo = 0 THEN [M1 EXCEPT !.abort = TRUE]
    ELSE
      LET nregs == Ireps[M.vm.pc_irep].nregs
          f == M.frames[callinfo]
          \* restore irep,pc,regs
          M2 == [M1 EXCEPT !.vm.callinfo_tail = f.prev,
                           !.vm.current_regs = f.current_regs,
                           !.vm.pc_irep = f.pc_irep,
                           !.vm.pc = f.pc,
                           !.vm.target_class = f.target_class]
          \* clear stacked arguments
          M3 == ReleaseRange(M2, regs + 1, regs + nregs - 1)
      IN  \* release callinfo
          FreeFrameBlock(M3, callinfo)
  ELSE IF rb = OP_R_BREAK THEN
    IF callinfo = 0 THEN [M1 EXCEPT !.abort = TRUE]
    ELSE
      LET w == BreakWalk(M1, callinfo, M.frames[callinfo].current_regs)
          f == M.frames[w.callinfo]
      IN  [w.M EXCEPT !.vm.callinfo_tail = f.prev,
                      !.vm.current_regs = f.current_regs,
                      !.vm.pc_irep = f.pc_irep,
                      !.vm.pc = f.pc,
                      !.vm.target_class = f.target_class]
  ELSE M1

\* A faulty op_add: the sum is stored in R(A+1).
op_add_wrong_slot(M, code, regs) ==
  SetReg(M, regs + code.a + 1,
         Val("FIXNUM", M.vm.regs[regs + code.a].v + M.vm.regs[regs + code.a + 1].v))

op_add(M, code, regs) ==
  LET ra == regs + code.a
      x == M.vm.regs[ra]
      y == M.vm.regs[ra + 1]
  IN
  IF x.tt = "FIXNUM" /\ y.tt = "FIXNUM" THEN
    SetReg(M, ra, Val("FIXNUM", x.v + y.v))
  ELSE IF x.tt = "FIXNUM" /\ y.tt = "FLOAT" THEN
    SetReg(M, ra, Val("FLOAT", x.v + y.v))
  ELSE IF x.tt = "FLOAT" /\ y.tt \in {"FIXNUM", "FLOAT"} THEN
    SetReg(M, ra, Val("FLOAT", x.v + y.v))
  ELSE \* other case
    [op_send(M, code, regs) EXCEPT !.ret = 0]

\* A faulty op_array: the values are copied and the source slots are kept.
op_array_copy(M, code, regs) ==
  LET ra == regs + code.a
      id == NewCellId(M)
  IN
  IF id = 0 THEN [M EXCEPT !.enomem = TRUE, !.ret = -1]
  ELSE
    LET M1 == [M EXCEPT
                 !.cells[id] =
                   [ FreeCell EXCEPT !.used = TRUE, !.tt = "ARRAY",
                       !.ref_count = 1,
                       !.data = [ i \in 1..code.c |->
                                    M.vm.regs[regs + code.b + i - 1] ] ]]
    IN SetReg(mrbc_release(M1, ra), ra, Val("ARRAY", id))

\* not_supported
NotSupportedLine == [msg |-> "Not supported!", cls |-> 0, sym |-> 0]

op_addi(M, code, regs) ==
  LET ra == regs + code.a
      x == M.vm.regs[ra]
  IN  IF x.tt = "FIXNUM" THEN SetReg(M, ra, Val("FIXNUM", x.v + code.c))
      ELSE IF x.tt = "FLOAT" THEN SetReg(M, ra, Val("FLOAT", x.v + code.c))
      ELSE [M EXCEPT !.console = NotSupportedLine]

\* C's integer division: the quotient truncated toward zero.
TruncDiv(a, b) ==
  IF (a < 0) = (b < 0)
    THEN (IF a < 0 THEN (-a) \div (-b) ELSE a \div b)
    ELSE -((IF a < 0 THEN -a ELSE a) \div (IF b < 0 THEN -b ELSE b))

\* What a division by zero leaves in the quotient on hardware that does not
\* trap it.
DivZeroQuotients == {0, -1}

\* op_div.  A fixnum division by zero is undefined in C: the hardware traps
\* it (the VM crashes) or the instruction yields undef and execution goes
\* on.  The float payloads of the model are integers; a float quotient is
\* kept as its integer part.
op_div(M, code, regs, undef) ==
  LET ra == regs + code.a
      x == M.vm.regs[ra]
      y == M.vm.regs[ra + 1]
  IN
  IF x.tt = "FIXNUM" /\ y.tt = "FIXNUM" THEN
    IF y.v = 0
      THEN [SetReg(M, ra, Val("FIXNUM", undef)) EXCEPT !.dangling = TRUE]
      ELSE SetReg(M, ra, Val("FIXNUM", TruncDiv(x.v, y.v)))
  ELSE IF x.tt \in {"FIXNUM", "FLOAT"} /\ y.tt \in {"FIXNUM", "FLOAT"} THEN
    SetReg(M, ra, Val("FLOAT", IF y.v = 0 THEN 0 ELSE TruncDiv(x.v, y.v)))
  ELSE \* other case
    [mrbc_release(op_send(M, code, regs), ra + 1) EXCEPT !.ret = 0]

\* mrbc_array_new and the memcpy / memset of op_array.
op_array(M, code, regs) ==
  LET ra == regs + code.a
      rb == regs + code.b
      rc == code.c
      id == NewCellId(M)
  IN
  IF id = 0 THEN [M EXCEPT !.enomem = TRUE, !.ret = -1]
  ELSE
    LET M1 == [M EXCEPT
                 !.cells[id] =
                   [ FreeCell EXCEPT !.used = TRUE, !.tt = "ARRAY",
                       !.ref_count = 1,
                       !.data = [ i \in 1..rc |-> M.vm.regs[rb + i - 1] ] ],
                 !.vm.regs = [ i \in DOMAIN M.vm.regs |->
                                 IF rb <= i /\ i < rb + rc
                                   THEN ZeroValue ELSE M.vm.regs[i] ]]
    IN SetReg(mrbc_release(M1, ra), ra, Val("ARRAY", id))

op_lambda(M, code, regs) ==
  LET ra == regs + code.a
      id == NewCellId(M)
  IN
  IF id = 0 THEN [M EXCEPT !.enomem = TRUE, !.ret = -1]
  ELSE
    LET M1 == [M EXCEPT !.cells[id] =
                 ProcCell("(lambda)", 0, "", Ireps[M.vm.pc_irep].reps[code.b + 1])]
    IN SetReg(mrbc_release(M1, ra), ra, Val("PROC", id))

op_range(M, code, regs) ==
  LET ra == regs + code.a
      rb == regs + code.b
      M1 == DupReg(DupReg(M, rb), rb + 1)
      id == NewCellId(M1)
  IN
  IF id = 0 THEN [M1 EXCEPT !.enomem = TRUE, !.ret = -1]
  ELSE
    LET M2 == [M1 EXCEPT !.cells[id] =
                 [ FreeCell EXCEPT !.used = TRUE, !.tt = "RANGE",
                     !.ref_count = 1, !.excl = code.c,
                     !.data = << M.vm.regs[rb], M.vm.regs[rb + 1] >> ]]
    IN SetReg(mrbc_release(M2, ra), ra, Val("RANGE", id))

\* mrbc_define_class: the class of that name if there is one, else a new
\* class record appended to the table.
ClassNamed(M, sym) == { c \in DOMAIN M.classes : M.classes[c].sym_id = sym }

op_class(M, code, regs) ==
  LET ra == regs + code.a
      sym == IrepSym(M.vm.pc_irep, code.b)
      super == IF M.vm.regs[ra + 1].tt = "CLASS"
                 THEN M.vm.regs[ra + 1].v ELSE mrbc_class_object
      old == ClassNamed(M, sym)
      cls == IF old # {} THEN CHOOSE c \in old : TRUE ELSE Len(M.classes) + 1
      M1 == IF old # {} THEN M
            ELSE [M EXCEPT !.classes = Append(@, ClassRec(sym, super, 0))]
  IN SetReg(M1, ra, Val("CLASS", cls))

op_exec(M, code, regs) ==
  LET ra == code.a
      recv == M.vm.regs[regs + ra]
      \* prepare callinfo
      M1 == mrbc_push_callinfo(M, 0, 0)
  IN [M1 EXCEPT !.vm.pc = 0,
                !.vm.pc_irep = Ireps[M.vm.irep].reps[code.b + 1],
                !.vm.current_regs = @ + ra,
                !.vm.target_class = find_class_by_object(M, recv),
                !.entered = "exec"]

\* op_method's scan for an older method of the same name: unchain and free
\* the first one found after proc.
RECURSIVE UnchainSame(_, _, _)
UnchainSame(M, proc, sym) ==
  LET nxt == M.cells[proc].next IN
  IF nxt = 0 THEN M
  ELSE IF M.cells[nxt].sym_id = sym
    THEN WithH([M EXCEPT !.cells[proc].next = M.cells[nxt].next],
               mrbc_raw_free(H([M EXCEPT !.cells[proc].next = M.cells[nxt].next]), nxt))
    ELSE UnchainSame(M, nxt, sym)

op_method(M, code, regs) ==
  LET ra == regs + code.a
      cls == M.vm.regs[ra].v
      proc == M.vm.regs[ra + 1].v
      sym_id == IrepSym(M.vm.pc_irep, code.b)
  IN
  IF M.vm.regs[ra].tt # "CLASS" \/ proc \notin CellIds
    THEN [M EXCEPT !.abort = TRUE]
  ELSE
    LET \* add to class
        M1 == [M EXCEPT !.cells[proc].sym_id = sym_id,
                        !.cells[proc].next = M.classes[cls].procs,
                        !.classes[cls].procs = proc,
                        !.dangling = M.dangling \/ ~M.cells[proc].used]
        \* checking same method name
        M2 == UnchainSame(M1, proc, sym_id)
    IN [M2 EXCEPT !.vm.regs[ra + 1].tt = "EMPTY"]

op_tclass(M, code, regs) ==
  SetReg(mrbc_release(M, regs + code.a), regs + code.a,
         Val("CLASS", M.vm.target_class))

\* A faulty op_stop: only the registers of the current IREP are released.
op_stop_window(M, code, regs) ==
  LET M1 == IF code.op = "STOP"
              THEN ReleaseRange(M, 0, Ireps[M.vm.pc_irep].nregs - 1)
              ELSE M
  IN [M1 EXCEPT !.vm.flag_preemption = 1, !.ret = -1]

\* op_stop, for OP_STOP and OP_ABORT
op_stop(M, code, regs) ==
  LET M1 == IF code.op = "STOP"
              THEN ReleaseRange(M, 0, MAX_REGS_SIZE - 1)
              ELSE M
  IN [M1 EXCEPT !.vm.flag_preemption = 1, !.ret = -1]

\* The default branch of the dispatch switch.
SkipLine == [msg |-> "Skip OP", cls |-> 0, sym |-> 0]

op_unknown(M, code, regs) == [M EXCEPT !.console = SkipLine]

(* ------------------------------------------------------------------ *)
(* State                                                               *)
(* ------------------------------------------------------------------ *)

VARIABLES
  prog,      \* the program loaded into the VM (root IREP)
  mem_cap,   \* capacity of the allocator pool, in blocks
  vm,        \* struct VM
  cells,     \* heap cells of the pool
  frames,    \* call-info blocks of the pool
  classes,   \* the class table
  console,   \* the last line written by console_printf
  runpc,     \* where the VM's task is: "opened", "ready" (not inside
             \* mrbc_vm_run), "exec" (about to fetch), "check" (at the
             \* while test), "fault" (crashed), "hung" (inside a handler
             \* that never returns)
  ret,       \* mrbc_vm_run's local ret; its return value once "ready"
  gh,        \* history: what the claims need to remember of the past
  free_vm_bitmap,  \* vm.c's table of the vm ids in use
  vm_tab,    \* the VMs of the process, by vm id
  pool,      \* the allocator's blocks, by the vm id they are tagged with
  host,      \* the last call made to the VM table or to the reference
             \* counting of value.c, and what it returned
  cmp        \* the last mrbc_compare call: its arguments and result

main_vars == << prog, mem_cap, vm, cells, frames, classes, console, runpc, ret, gh >>

aux_vars == << free_vm_bitmap, vm_tab, pool, host, cmp >>

vars == << prog, mem_cap, vm, cells, frames, classes, console, runpc, ret, gh,
           free_vm_bitmap, vm_tab, pool, host, cmp >>

NoLine == [msg |-> "", cls |-> 0, sym |-> 0]

RegIds == 0..(MAX_REGS_SIZE - 1)

\* The pool after mrbc_init: the built-in Proc#call is its only block.
InitCells ==
  [ i \in CellIds |->
      IF i = 1 THEN ProcCell("call", 1, "c_proc_call", "") ELSE FreeCell ]

InitClassTable ==
  [ InitClasses EXCEPT ![ClassId("Proc")].procs = 1 ]

\* The programs that create objects: their pool also holds the block of
\* Object#new.  For the others that block would only lower the capacity
\* left, which mem_cap ranges over anyway.
ObjectPrograms == { "super" }

CellsOf(p) ==
  IF p \in ObjectPrograms
    THEN [ InitCells EXCEPT ![2] = ProcCell("new", 1, "c_object_new", "") ]
    ELSE InitCells

ClassTableOf(p) ==
  IF p \in ObjectPrograms
    THEN [ InitClassTable EXCEPT ![mrbc_class_object].procs = 2 ]
    ELSE InitClassTable

\* struct VM after mrbc_vm_open (memset to zero) and the loader.
OpenedVm(p) ==
  [ irep |-> p, pc_irep |-> "", pc |-> 0, current_regs |-> 0,
    regs |-> [ i \in RegIds |-> ZeroValue ],
    callinfo_tail |-> 0, target_class |-> 0, flag_preemption |-> 0 ]

\* What is remembered of a caller at the moment a call is made.
NoSnap ==
  [ live |-> FALSE, pc |-> 0, pc_irep |-> "", current_regs |-> 0,
    target_class |-> 0, tail |-> 0, used |-> {} ]

UsedFrames(fr) == { i \in FrameIds : fr[i].used }

\* since_raise: opcodes begun in this run with the flag already raised.
\* last_op: the opcode executed last in this run.  enomem: an allocation got
\* no memory in this run.  calls: the calls made and not yet returned from,
\* innermost first, each with the caller as it was at the call (live for a
\* SEND of a script method).  popped: the entry of the call the opcode just
\* executed returned from by RETURN NORMAL.
InitGh ==
  [ since_raise |-> 0, last_op |-> "", enomem |-> FALSE,
    calls |-> << >>, popped |-> NoSnap ]

\* A 32-bit word, most significant bit first.
FREE_BITMAP_WIDTH == 32

Word32Zero == [ i \in 1..FREE_BITMAP_WIDTH |-> 0 ]

\* Num(free_vm_bitmap)
BitmapWords == MAX_VM_COUNT \div 32 + 1

\* A vm id no VM holds.
ClosedVm == [ open |-> FALSE, flag_need_memfree |-> 0, irep |-> 0 ]

VmIds == 1..(BitmapWords * FREE_BITMAP_WIDTH)

TrackedIds == 1..MaxTracked

NoHostCall == [ op |-> "", id |-> 0, ret |-> 0 ]

NoCompare == [ done |-> FALSE, v1 |-> ZeroValue, v2 |-> ZeroValue, res |-> 0 ]

\* The VM table while the one VM of the executor model runs: it holds id 1,
\* in a caller-supplied struct VM.
OneVmOpen ==
  /\ free_vm_bitmap = [ w \in 1..BitmapWords |->
                         IF w = 1 THEN [Word32Zero EXCEPT ![1] = 1]
                                  ELSE Word32Zero ]
  /\ vm_tab = [ id \in VmIds |->
                 IF id = 1 THEN [ClosedVm EXCEPT !.open = TRUE, !.irep = 1]
                           ELSE ClosedVm ]
  /\ pool = [ raw |-> 0, tagged |-> [ id \in TrackedIds |-> 0 ],
              glob |-> [ id \in TrackedIds |-> 0 ] ]
  /\ host = NoHostCall
  /\ cmp = NoCompare

Init ==
  /\ OneVmOpen
  /\ prog \in Programs
  /\ mem_cap \in 1..MaxMem
  /\ vm = OpenedVm(prog)
  /\ cells = CellsOf(prog)
  /\ frames = [ i \in FrameIds |-> FreeFrame ]
  /\ classes = ClassTableOf(prog)
  /\ console = NoLine
  /\ runpc = "opened"
  /\ ret = 0
  /\ gh = InitGh

(* ------------------------------------------------------------------ *)
(* mrbc_vm_begin, mrbc_vm_run and the timer                            *)
(* ------------------------------------------------------------------ *)

\* A faulty mrbc_vm_begin: self is not installed in R(0).
mrbc_vm_begin_no_self(v) ==
  [ v EXCEPT !.pc_irep = v.irep,
             !.pc = 0,
             !.current_regs = 0,
             !.regs = [ i \in RegIds |-> Val("NIL", 0) ],
             !.callinfo_tail = 0,
             !.target_class = mrbc_class_object,
             !.flag_preemption = 0 ]

mrbc_vm_begin(v) ==
  [ v EXCEPT !.pc_irep = v.irep,
             !.pc = 0,
             !.current_regs = 0,
             !.regs = [ i \in RegIds |->
                          IF i = 0 THEN Val("CLASS", mrbc_class_object)
                                   ELSE Val("NIL", 0) ],
             !.callinfo_tail = 0,
             !.target_class = mrbc_class_object,
             !.flag_preemption = 0 ]

VmBegin ==
  /\ runpc = "opened"
  /\ vm' = mrbc_vm_begin(vm)
  /\ runpc' = "ready"
  /\ UNCHANGED << prog, mem_cap, cells, frames, classes, console, ret, gh >>
  /\ UNCHANGED aux_vars

\* The scheduler gives the task a slice: mrbc_vm_run is entered.  A task
\* whose last run returned non-zero is not run again.
VmRunEnter ==
  /\ runpc = "ready"
  /\ ret = 0
  /\ runpc' = "exec"
  /\ gh' = [gh EXCEPT !.last_op = "", !.enomem = FALSE]
  /\ UNCHANGED << prog, mem_cap, vm, cells, frames, classes, console, ret >>
  /\ UNCHANGED aux_vars

\* The timer interrupt (mrbc_tick) raises the flag of the task, at any
\* moment of its life.
Tick ==
  /\ runpc \in {"exec", "check"} \/ (runpc = "ready" /\ ret = 0)
  /\ vm.flag_preemption = 0
  /\ vm' = [vm EXCEPT !.flag_preemption = 1]
  /\ UNCHANGED << prog, mem_cap, cells, frames, classes, console, runpc, ret, gh >>
  /\ UNCHANGED aux_vars

\* A faulty while test: the flag is never looked at.
LoopAgain_always(flag) == TRUE

\* The while test of mrbc_vm_run's loop.
LoopAgain(flag) == flag = 0

\* while( !vm->flag_preemption ): go round again, or clear the flag and
\* return ret.
LoopCheck ==
  /\ runpc = "check"
  /\ IF LoopAgain(vm.flag_preemption)
       THEN /\ runpc' = "exec"
            /\ UNCHANGED << vm, gh >>
       ELSE /\ vm' = [vm EXCEPT !.flag_preemption = 0]
            /\ runpc' = "ready"
            /\ gh' = [gh EXCEPT !.since_raise = 0]
  /\ UNCHANGED << prog, mem_cap, cells, frames, classes, console, ret >>
  /\ UNCHANGED aux_vars

(* ------------------------------------------------------------------ *)
(* The dispatch loop: one action per opcode handler                    *)
(* ------------------------------------------------------------------ *)

\* The opcodes the switch of mrbc_vm_run has a case for, among those the
\* programs use.
KnownOps ==
  { "NOP", "MOVE", "LOADL", "LOADI", "LOADNIL", "LOADSELF", "LOADT", "LOADF",
    "GETCONST", "GETUPVAR", "JMP", "JMPIF", "JMPNOT", "SEND", "SENDB", "CALL", "SUPER", "ENTER", "RETURN", "ADD", "ADDI", "DIV",
    "ARRAY", "LAMBDA", "RANGE", "CLASS", "EXEC", "METHOD", "TCLASS",
    "STOP", "ABORT" }

PcInBounds == vm.pc \in 0..(Len(Ireps[vm.pc_irep].code) - 1)

\* bin_to_uint32(vm->pc_irep->code + vm->pc * 4)
Code == Ireps[vm.pc_irep].code[vm.pc + 1]

\* The machine a handler is entered with: pc already incremented, ret as
\* the dispatcher will assign it when the handler returns 0.
CurM(r) ==
  [ vm |-> [vm EXCEPT !.pc = @ + 1], cells |-> cells, frames |-> frames,
    classes |-> classes, console |-> console, mem_cap |-> mem_cap,
    ret |-> r, dangling |-> FALSE, abort |-> FALSE, enomem |-> FALSE,
    hang |-> FALSE, entered |-> "" ]

\* History kept per executed opcode.
GhAfterOp(M, stuck) ==
  LET called == ~stuck /\ M.entered # ""
      isret  == ~stuck /\ Code.op = "RETURN"
      caller == [ live |-> M.entered = "script" /\ Code.op \in {"SEND", "SENDB"},
                  pc |-> vm.pc + 1, pc_irep |-> vm.pc_irep,
                  current_regs |-> vm.current_regs,
                  target_class |-> vm.target_class,
                  tail |-> vm.callinfo_tail, used |-> UsedFrames(frames) ]
  IN
  [ gh EXCEPT
      !.since_raise = IF vm.flag_preemption = 1
                        THEN (IF @ < 2 THEN @ + 1 ELSE @) ELSE 0,
      !.last_op = Code.op,
      !.enomem = @ \/ M.enomem,
      !.calls = IF called THEN << caller >> \o @
                ELSE IF isret /\ @ # << >>
                  THEN (IF Code.b = OP_R_NORMAL THEN Tail(@) ELSE << >>)
                ELSE @,
      !.popped = IF isret /\ Code.b = OP_R_NORMAL /\ gh.calls # << >>
                   THEN Head(gh.calls) ELSE NoSnap ]

\* The handler's effect becomes the state; a handler that dereferenced NULL
\* or failed an assertion crashes the firmware, one that touched a freed
\* block may crash it or go on with what the block still holds, one caught
\* in an endless loop never returns.
Commit(M, crash) ==
  LET crashed == M.abort \/ (M.dangling /\ crash) IN
  /\ gh' = GhAfterOp(M, crashed \/ M.hang)
  /\ UNCHANGED << prog, mem_cap >>
  /\ UNCHANGED aux_vars
  /\ IF crashed \/ M.hang
       THEN /\ runpc' = IF crashed THEN "fault" ELSE "hung"
            /\ UNCHANGED << vm, cells, frames, classes, console, ret >>
       ELSE /\ runpc' = "check"
            /\ vm' = M.vm
            /\ cells' = M.cells
            /\ frames' = M.frames
            /\ classes' = M.classes
            /\ console' = M.console
            /\ ret' = M.ret

\* The highest register index, counted from the base, that the handler of
\* an instruction reads or writes.
TopReg(code) ==
  LET Max(x, y) == IF x >= y THEN x ELSE y IN
  CASE code.op \in {"SEND", "SENDB", "SUPER"} -> code.a + code.c + 1
    [] code.op \in {"ADD", "SUB", "MUL", "DIV", "EQ", "LT", "LE", "GT", "GE",
                    "CLASS", "METHOD"} -> code.a + 1
    [] code.op = "MOVE" -> Max(code.a, code.b)
    [] code.op = "ARRAY" -> Max(code.a, code.b + code.c - 1)
    [] code.op = "RANGE" -> Max(code.a, code.b + 1)
    [] code.op \in {"NOP", "JMP", "ENTER", "CALL", "STOP", "ABORT"} -> 0
    [] OTHER -> code.a

\* The handler stays inside vm->regs[MAX_REGS_SIZE].
InFile == vm.current_regs + TopReg(Code) < MAX_REGS_SIZE

\* The switch of mrbc_vm_run selects the handler of one of ops.
Dispatch(ops) ==
  /\ runpc = "exec"
  /\ PcInBounds
  /\ InFile
  /\ Code.op \in ops

Done(M) == \E crash \in BOOLEAN : Commit(M, crash)

Op_nop ==
  /\ Dispatch({"NOP"})
  /\ Done(op_nop(CurM(0), Code, vm.current_regs))

Op_move ==
  /\ Dispatch({"MOVE"})
  /\ Done(op_move(CurM(0), Code, vm.current_regs))

Op_loadl ==
  /\ Dispatch({"LOADL"})
  /\ Done(op_loadl(CurM(0), Code, vm.current_regs))

Op_loadi ==
  /\ Dispatch({"LOADI"})
  /\ Done(op_loadi(CurM(0), Code, vm.current_regs))

Op_loadnil ==
  /\ Dispatch({"LOADNIL"})
  /\ Done(op_loadnil(CurM(0), Code, vm.current_regs))

Op_loadself ==
  /\ Dispatch({"LOADSELF"})
  /\ Done(op_loadself(CurM(0), Code, vm.current_regs))

Op_loadt ==
  /\ Dispatch({"LOADT"})
  /\ Done(op_loadt(CurM(0), Code, vm.current_regs))

Op_loadf ==
  /\ Dispatch({"LOADF"})
  /\ Done(op_loadf(CurM(0), Code, vm.current_regs))

Op_getconst ==
  /\ Dispatch({"GETCONST"})
  /\ Done(op_getconst(CurM(0), Code, vm.current_regs))

Op_getupvar ==
  /\ Dispatch({"GETUPVAR"})
  /\ Done(op_getupvar(CurM(0), Code, vm.current_regs))

Op_jmp ==
  /\ Dispatch({"JMP"})
  /\ Done(op_jmp(CurM(0), Code, vm.current_regs))

Op_jmpif ==
  /\ Dispatch({"JMPIF"})
  /\ Done(op_jmpif(CurM(0), Code, vm.current_regs))

Op_jmpnot ==
  /\ Dispatch({"JMPNOT"})
  /\ Done(op_jmpnot(CurM(0), Code, vm.current_regs))

Op_send ==
  /\ Dispatch({"SEND", "SENDB"})
  /\ Done(op_send(CurM(0), Code, vm.current_regs))

Op_super ==
  /\ Dispatch({"SUPER"})
  /\ Done(op_super(CurM(0), Code, vm.current_regs))

Op_call ==
  /\ Dispatch({"CALL"})
  /\ Done(op_call(CurM(0), Code, vm.current_regs))

Op_enter ==
  /\ Dispatch({"ENTER"})
  /\ Done(op_enter(CurM(0), Code, vm.current_regs))

Op_return ==
  /\ Dispatch({"RETURN"})
  /\ Done(op_return(CurM(0), Code, vm.current_regs))

Op_add ==
  /\ Dispatch({"ADD"})
  /\ Done(op_add(CurM(0), Code, vm.current_regs))

Op_addi ==
  /\ Dispatch({"ADDI"})
  /\ Done(op_addi(CurM(0), Code, vm.current_regs))

Op_div ==
  /\ Dispatch({"DIV"})
  /\ \E undef \in DivZeroQuotients :
       Done(op_div(CurM(0), Code, vm.current_regs, undef))

Op_array ==
  /\ Dispatch({"ARRAY"})
  /\ Done(op_array(CurM(0), Code, vm.current_regs))

Op_lambda ==
  /\ Dispatch({"LAMBDA"})
  /\ Done(op_lambda(CurM(0), Code, vm.current_regs))

Op_range ==
  /\ Dispatch({"RANGE"})
  /\ Done(op_range(CurM(0), Code, vm.current_regs))

Op_class ==
  /\ Dispatch({"CLASS"})
  /\ Done(op_class(CurM(0), Code, vm.current_regs))

Op_exec ==
  /\ Dispatch({"EXEC"})
  /\ Done(op_exec(CurM(0), Code, vm.current_regs))

Op_method ==
  /\ Dispatch({"METHOD"})
  /\ Done(op_method(CurM(0), Code, vm.current_regs))

Op_tclass ==
  /\ Dispatch({"TCLASS"})
  /\ Done(op_tclass(CurM(0), Code, vm.current_regs))

Op_stop ==
  /\ Dispatch({"STOP", "ABORT"})
  /\ Done(op_stop(CurM(0), Code, vm.current_regs))

\* default: the opcode is skipped and ret keeps its value.
Op_unknown ==
  /\ runpc = "exec"
  /\ PcInBounds
  /\ Code.op \notin KnownOps
  /\ InFile
  /\ Commit(op_unknown(CurM(ret), Code, vm.current_regs), FALSE)

\* The fetch reads past the end of the code array.
FetchOutside ==
  /\ runpc = "exec"
  /\ ~PcInBounds
  /\ runpc' = "fault"
  /\ UNCHANGED << prog, mem_cap, vm, cells, frames, classes, console, ret, gh >>
  /\ UNCHANGED aux_vars

\* The handler reads or writes a slot past the end of vm->regs: what lies
\* there is not a register, and the run is followed no further.
RegOutside ==
  /\ runpc = "exec"
  /\ PcInBounds
  /\ ~InFile
  /\ runpc' = "fault"
  /\ UNCHANGED << prog, mem_cap, vm, cells, frames, classes, console, ret, gh >>
  /\ UNCHANGED aux_vars

\* Every step of the VM's task; the timer's step is Tick.
VmStep ==
  \/ VmBegin
  \/ VmRunEnter
  \/ LoopCheck
  \/ FetchOutside
  \/ RegOutside
  \/ Op_nop
  \/ Op_move
  \/ Op_loadl
  \/ Op_loadi
  \/ Op_loadnil
  \/ Op_loadself
  \/ Op_loadt
  \/ Op_loadf
  \/ Op_getconst
  \/ Op_getupvar
  \/ Op_jmp
  \/ Op_jmpif
  \/ Op_jmpnot
  \/ Op_send
  \/ Op_call
  \/ Op_super
  \/ Op_enter
  \/ Op_return
  \/ Op_add
  \/ Op_addi
  \/ Op_div
  \/ Op_array
  \/ Op_lambda
  \/ Op_range
  \/ Op_class
  \/ Op_exec
  \/ Op_method
  \/ Op_tclass
  \/ Op_stop
  \/ Op_unknown

Next ==
  \/ Tick
  \/ VmStep

Spec == Init /\ [][Next]_vars

\* The timer keeps ticking and the processor keeps executing.
SpecFair == Init /\ [][Next]_vars /\ WF_vars(Tick) /\ WF_vars(Next)

(* ------------------------------------------------------------------ *)
(* The VM table: mrbc_vm_open, mrbc_vm_end, mrbc_vm_close              *)
(* ------------------------------------------------------------------ *)

\* x << k and the test (x >> (32 - k)) == 0 on a 32-bit word.
Shl32(x, k) ==
  [ i \in 1..FREE_BITMAP_WIDTH |-> IF i + k <= FREE_BITMAP_WIDTH THEN x[i + k] ELSE 0 ]

HighZero(x, k) == \A i \in 1..k : x[i] = 0

\* ~x
Not32(x) == [ i \in 1..FREE_BITMAP_WIDTH |-> 1 - x[i] ]

\* One step of nlz32: if the top k bits are zero, count them and shift.
NlzStep(st, k) ==
  IF HighZero(st.x, k) THEN [ n |-> st.n + k, x |-> Shl32(st.x, k) ] ELSE st

\* nlz32: number of leading zeros.
nlz32(x) ==
  IF x = Word32Zero THEN 32
  ELSE LET st == NlzStep(NlzStep(NlzStep(NlzStep([ n |-> 1, x |-> x ], 16), 8), 4), 2)
       IN  st.n - st.x[1]

\* The state the VM-table functions work on.
HostState == [ bitmap |-> free_vm_bitmap, tab |-> vm_tab, pool |-> pool ]

RECURSIVE SumTagged(_, _)
SumTagged(f, n) == IF n = 0 THEN 0 ELSE f[n] + SumTagged(f, n - 1)

\* Blocks of the pool in use: the struct VM of each VM that mrbc_vm_open
\* allocated, the IREP of each VM, the untagged object blocks and the
\* blocks tagged with a vm id.
UsedPool(T) ==
  Cardinality({ id \in VmIds : T.tab[id].open /\ T.tab[id].flag_need_memfree = 1 })
    + Cardinality({ id \in VmIds : T.tab[id].irep = 1 })
    + T.pool.raw + SumTagged(T.pool.tagged, MaxTracked)

CanRawAlloc(T) == UsedPool(T) < MaxBlocks

\* The loop of mrbc_vm_open over the words of free_vm_bitmap, from word i
\* (counted from 0): the id found and the bitmap with its bit set, or id 0.
RECURSIVE AllocVmId(_, _)
AllocVmId(bitmap, i) ==
  IF i >= BitmapWords THEN [ vm_id |-> 0, bitmap |-> bitmap ]
  ELSE LET n == nlz32(Not32(bitmap[i + 1])) IN
       IF n < FREE_BITMAP_WIDTH
         THEN [ vm_id |-> i * FREE_BITMAP_WIDTH + n + 1,
                bitmap |-> [bitmap EXCEPT ![i + 1][n + 1] = 1] ]
         ELSE AllocVmId(bitmap, i + 1)

\* A faulty mrbc_vm_open: the bit of the id handed out is not set.
mrbc_vm_open_no_mark(T, vm_arg_null) ==
  IF vm_arg_null /\ ~CanRawAlloc(T) THEN [ T |-> T, ret |-> 0 ]
  ELSE
    LET a == AllocVmId(T.bitmap, 0) IN
    IF a.vm_id = 0 THEN [ T |-> T, ret |-> 0 ]
    ELSE [ T |-> [T EXCEPT !.tab[a.vm_id] =
                             [ open |-> TRUE,
                               flag_need_memfree |-> IF vm_arg_null THEN 1 ELSE 0,
                               irep |-> 0 ]],
           ret |-> a.vm_id ]

\* mrbc_vm_open: ret is the vm_id of the VM returned, 0 for NULL.
mrbc_vm_open(T, vm_arg_null) ==
  IF vm_arg_null /\ ~CanRawAlloc(T) THEN [ T |-> T, ret |-> 0 ]
  ELSE
    \* allocate vm id.
    LET a == AllocVmId(T.bitmap, 0) IN
    IF a.vm_id = 0 THEN [ T |-> T, ret |-> 0 ]
    ELSE \* initialize attributes.
         [ T |-> [T EXCEPT !.bitmap = a.bitmap,
                           !.tab[a.vm_id] =
                             [ open |-> TRUE,
                               flag_need_memfree |-> IF vm_arg_null THEN 1 ELSE 0,
                               irep |-> 0 ]],
           ret |-> a.vm_id ]

\* A faulty mrbc_vm_close: the vm id stays taken.
mrbc_vm_close_keep_id(T, vm_id) == [T EXCEPT !.tab[vm_id] = ClosedVm]

\* mrbc_vm_close: free the vm id, the irep and (when mrbc_vm_open allocated
\* it) the struct VM.
mrbc_vm_close(T, vm_id) ==
  LET i == (vm_id - 1) \div FREE_BITMAP_WIDTH
      n == (vm_id - 1) % FREE_BITMAP_WIDTH
  IN  [T EXCEPT !.bitmap[i + 1][n + 1] = 0,
                !.tab[vm_id] = ClosedVm]

\* mrbc_global_clear_vm_id: the blocks the global table refers to lose their
\* vm id, whichever VM made them.
mrbc_global_clear_vm_id(T) ==
  [T EXCEPT !.pool.raw = @ + SumTagged(T.pool.glob, MaxTracked),
            !.pool.tagged = [ id \in TrackedIds |->
                                T.pool.tagged[id] - T.pool.glob[id] ],
            !.pool.glob = [ id \in TrackedIds |-> 0 ]]

\* mrbc_free_all: every block tagged with the VM's id is freed.
mrbc_free_all(T, vm_id) == [T EXCEPT !.pool.tagged[vm_id] = 0]

\* mrbc_vm_end
mrbc_vm_end(T, vm_id) == mrbc_free_all(mrbc_global_clear_vm_id(T), vm_id)

OpenCount == Cardinality({ id \in VmIds : vm_tab[id].open })

HostCommit(T, op, id, r) ==
  /\ free_vm_bitmap' = T.bitmap
  /\ vm_tab' = T.tab
  /\ pool' = T.pool
  /\ host' = [ op |-> op, id |-> id, ret |-> r ]
  /\ UNCHANGED << main_vars, cmp >>

\* mrbc_vm_open is called, with a struct VM or with NULL.  NULL is passed
\* for the first VMs only, so the VMs that own their struct are tracked ones.
VmOpen ==
  \E vm_arg_null \in BOOLEAN :
    /\ vm_arg_null => OpenCount < MaxTracked
    /\ LET r == mrbc_vm_open(HostState, vm_arg_null)
       IN  HostCommit(r.T, "open", r.ret, r.ret)

\* The loader gives an open VM its IREP tree.
VmLoad ==
  \E id \in TrackedIds :
    /\ vm_tab[id].open
    /\ vm_tab[id].irep = 0
    /\ CanRawAlloc(HostState)
    /\ HostCommit([HostState EXCEPT !.tab[id].irep = 1], "load", id, 0)

\* A running VM allocates an object: mrbc_alloc tags the block with its id.
VmAlloc ==
  \E id \in TrackedIds :
    /\ vm_tab[id].open
    /\ CanRawAlloc(HostState)
    /\ HostCommit([HostState EXCEPT !.pool.tagged[id] = @ + 1], "alloc", id, 0)

\* A running VM stores one of its objects in a global variable.
VmSetGlobal ==
  \E id \in TrackedIds :
    /\ vm_tab[id].open
    /\ pool.glob[id] < pool.tagged[id]
    /\ HostCommit([HostState EXCEPT !.pool.glob[id] = @ + 1], "global", id, 0)

VmEnd ==
  \E id \in TrackedIds :
    /\ vm_tab[id].open
    /\ HostCommit(mrbc_vm_end(HostState, id), "end", id, 0)

VmClose ==
  \E id \in TrackedIds :
    /\ vm_tab[id].open
    /\ HostCommit(mrbc_vm_close(HostState, id), "close", id, 0)

\* No VM is open and none executes: the state after mrbc_init.
InitVms ==
  /\ prog = "off"
  /\ mem_cap = 1
  /\ vm = OpenedVm("off")
  /\ cells = InitCells
  /\ frames = [ i \in FrameIds |-> FreeFrame ]
  /\ classes = InitClassTable
  /\ console = NoLine
  /\ runpc = "opened"
  /\ ret = 0
  /\ gh = InitGh
  /\ free_vm_bitmap = [ w \in 1..BitmapWords |-> Word32Zero ]
  /\ vm_tab = [ id \in VmIds |-> ClosedVm ]
  /\ pool = [ raw |-> 0, tagged |-> [ id \in TrackedIds |-> 0 ],
              glob |-> [ id \in TrackedIds |-> 0 ] ]
  /\ host = NoHostCall
  /\ cmp = NoCompare

NextVms ==
  \/ VmOpen
  \/ VmLoad
  \/ VmAlloc
  \/ VmSetGlobal
  \/ VmEnd
  \/ VmClose

SpecVms == InitVms /\ [][NextVms]_vars

(* ------------------------------------------------------------------ *)
(* mrbc_compare                                                        *)
(* ------------------------------------------------------------------ *)

\* The largest and smallest mrbc_int (int32_t).
MRBC_INT_MAX == 2147483647

MRBC_INT_MIN == (-2147483647) - 1

\* a - b in 32-bit two's complement arithmetic, computed on 16-bit halves.
Sub32(a, b) ==
  LET lo0 == (a % 65536) - (b % 65536)
      borrow == IF lo0 < 0 THEN 1 ELSE 0
      lo == lo0 + borrow * 65536
      hi0 == (a \div 65536) - (b \div 65536) - borrow
      hi == ((hi0 + 32768) % 65536) - 32768
  IN  hi * 65536 + lo

\* Whether a - b overflows int32_t.
SubOverflows(a, b) ==
  \/ (a >= 0 /\ b < 0 /\ a > MRBC_INT_MAX + b)
  \/ (a < 0 /\ b > 0 /\ a < MRBC_INT_MIN + b)

\* The values v1->i - v2->i can have: the difference, or, when the signed
\* subtraction overflows (undefined in C), the wrapped difference or any
\* sign the compiler's assumptions lead to.
IntDiff(a, b) ==
  IF SubOverflows(a, b) THEN { Sub32(a, b), -1, 0, 1 } ELSE { a - b }

\* CMP_FLOAT
CmpFloat(d1, d2) ==
  -1 + (IF d1 = d2 THEN 1 ELSE 0) + (IF d1 > d2 THEN 1 ELSE 0) * 2

\* mrbc_array_compare, mrbc_string_compare, mrbc_range_compare and
\* mrbc_hash_compare: 0 for an object and itself, by content otherwise.
ContainerCompare(v1, v2) == IF v1.v = v2.v THEN {0} ELSE {-1, 0, 1}

\* A faulty mrbc_compare: EMPTY and NIL compare by tag like any other pair.
mrbc_compare_by_tag(v1, v2) ==
  IF v1.tt # v2.tt THEN { TagOrd(v1.tt) - TagOrd(v2.tt) }
  ELSE IF v1.tt \in {"NIL", "FALSE", "TRUE"} THEN {0}
  ELSE IF v1.tt \in {"FIXNUM", "SYMBOL"} THEN IntDiff(v1.v, v2.v)
  ELSE { CmpFloat(v1.v, v2.v) }

\* mrbc_compare: the values the call can return.
mrbc_compare(v1, v2) ==
  \* if TT_XXX is different
  IF v1.tt # v2.tt THEN
    \* but Numeric?
    IF v1.tt = "FIXNUM" /\ v2.tt = "FLOAT" THEN { CmpFloat(v1.v, v2.v) }
    ELSE IF v1.tt = "FLOAT" /\ v2.tt = "FIXNUM" THEN { CmpFloat(v1.v, v2.v) }
    \* leak Empty?
    ELSE IF \/ (v1.tt = "EMPTY" /\ v2.tt = "NIL")
            \/ (v1.tt = "NIL" /\ v2.tt = "EMPTY") THEN {0}
    \* other case
    ELSE { TagOrd(v1.tt) - TagOrd(v2.tt) }
  \* check value
  ELSE IF v1.tt \in {"NIL", "FALSE", "TRUE"} THEN {0}
  ELSE IF v1.tt \in {"FIXNUM", "SYMBOL"} THEN IntDiff(v1.v, v2.v)
  ELSE IF v1.tt = "FLOAT" THEN { CmpFloat(v1.v, v2.v) }
  ELSE IF v1.tt \in {"CLASS", "OBJECT", "PROC"} THEN
    { -1 + (IF v1.v = v2.v THEN 1 ELSE 0) + (IF v1.v > v2.v THEN 1 ELSE 0) * 2 }
  ELSE IF v1.tt \in {"ARRAY", "STRING", "RANGE", "HASH"} THEN ContainerCompare(v1, v2)
  ELSE {1}

\* The values mrbc_compare is called with.
CmpVals ==
  { Val(t, 0) : t \in {"EMPTY", "NIL", "FALSE", "TRUE"} }
    \cup { Val("FIXNUM", i) : i \in {MRBC_INT_MIN, -1, 0, 1, MRBC_INT_MAX} }
    \cup { Val("FLOAT", d) : d \in {0, 2} }
    \cup { Val("SYMBOL", y) : y \in {0, 1, 17} }
    \cup { Val(t, h) : t \in {"CLASS", "OBJECT", "PROC"}, h \in {1, 2} }
    \cup { Val(t, 3) : t \in {"ARRAY", "STRING", "RANGE", "HASH"} }

Compare ==
  \E v1 \in CmpVals, v2 \in CmpVals :
    \E res \in mrbc_compare(v1, v2) :
      /\ cmp' = [ done |-> TRUE, v1 |-> v1, v2 |-> v2, res |-> res ]
      /\ UNCHANGED << main_vars, free_vm_bitmap, vm_tab, pool, host >>

InitCompare ==
  /\ prog = "off"
  /\ mem_cap = 1
  /\ vm = OpenedVm("off")
  /\ cells = InitCells
  /\ frames = [ i \in FrameIds |-> FreeFrame ]
  /\ classes = InitClassTable
  /\ console = NoLine
  /\ runpc = "opened"
  /\ ret = 0
  /\ gh = InitGh
  /\ OneVmOpen

NextCompare == Compare

SpecCompare == InitCompare /\ [][NextCompare]_vars

(* ------------------------------------------------------------------ *)
(* Properties                                                          *)
(* ------------------------------------------------------------------ *)

\* An opcode handler has just run to its end.
OpDone == runpc = "exec" /\ PcInBounds /\ runpc' = "check"

\* C1: mrbc_vm_run returns at the first opcode boundary after flag_preemption
\* is raised: at most one opcode begins with the flag already up, the while
\* test that sees the flag returns, the return leaves the flag 0, and a tick
\* changes nothing but the flag (no opcode is cut short).
C1_ReturnsAtFirstBoundary ==
  /\ [](gh.since_raise <= 1)
  /\ [][runpc = "check" /\ vm.flag_preemption = 1 /\ runpc' # runpc
          => runpc' = "ready"]_vars
  /\ [][runpc = "check" /\ runpc' = "ready" => vm'.flag_preemption = 0]_vars
  /\ [][runpc' = runpc
          => /\ vm' = [vm EXCEPT !.flag_preemption = vm'.flag_preemption]
             /\ UNCHANGED << cells, frames, classes, console, ret >>]_vars

\* A run of the endless loop was preempted by a tick after a JMP and returned.
C1_Witness ==
  /\ prog = "loop"
  /\ runpc = "ready"
  /\ gh.last_op = "JMP"
  /\ ret = 0
  /\ vm.flag_preemption = 0

\* C2: with the timer ticking for ever, every call of mrbc_vm_run returns,
\* whatever the program (here: every program that ends in STOP or loops).
C2_EveryRunReturns ==
  (runpc = "exec" /\ prog # "off") ~> (runpc = "ready")

\* C3: once an allocation has failed inside an opcode of this run, no further
\* opcode is executed in the run.
C3_StopsOnAllocFailure ==
  [][~(gh.enomem /\ OpDone)]_vars

\* The values that refer to heap cell c: register slots, elements of arrays,
\* hashes and ranges, and the links of the classes' method lists.
RegRefs(c) ==
  Cardinality({ i \in RegIds : vm.regs[i].tt \in HeapTags /\ vm.regs[i].v = c })

DataRefs(c) ==
  Cardinality({ dk \in UNION { { << d, k >> : k \in DOMAIN cells[d].data } :
                                 d \in { x \in CellIds : cells[x].used } } :
                  /\ cells[dk[1]].data[dk[2]].tt \in HeapTags
                  /\ cells[dk[1]].data[dk[2]].v = c })

ListRefs(c) ==
  Cardinality({ k \in DOMAIN classes : classes[k].procs = c })
    + Cardinality({ q \in CellIds :
                      cells[q].used /\ cells[q].tt = "PROC" /\ cells[q].next = c })

Refs(c) == RegRefs(c) + DataRefs(c) + ListRefs(c)

\* C4: after every opcode, every heap cell that is allocated or referred to
\* is allocated, and its refcount is the number of values that refer to it.
C4_RefcountIsReferenceCount ==
  \A c \in CellIds :
    cells[c].used \/ Refs(c) > 0
      => cells[c].used /\ cells[c].ref_count = Refs(c)

\* C5: every register slot with a heap tag points to a cell that has not
\* been freed and whose refcount is at least 1.
C5_HeapRegistersLive ==
  \A i \in RegIds :
    vm.regs[i].tt \in HeapTags
      => /\ vm.regs[i].v \in CellIds
         /\ cells[vm.regs[i].v].used
         /\ cells[vm.regs[i].v].ref_count >= 1

\* C6: when the RETURN NORMAL that matches a SEND of a script method has
\* been executed, the caller is restored: pc is the instruction after the SEND,
\* pc_irep, register base and target_class are those before the SEND, the
\* call-info stack is as deep as before, and the frame's block is free again.
C6_ReturnRestoresCaller ==
  gh.popped.live =>
    /\ vm.pc = gh.popped.pc
    /\ vm.pc_irep = gh.popped.pc_irep
    /\ vm.current_regs = gh.popped.current_regs
    /\ vm.target_class = gh.popped.target_class
    /\ vm.callinfo_tail = gh.popped.tail
    /\ UsedFrames(frames) = gh.popped.used

\* The step of an OP_SEND whose method is found nowhere on the receiver's
\* class chain.
MissingSend ==
  /\ OpDone
  /\ Code.op = "SEND"
  /\ find_method(CurM(0), vm.regs[vm.current_regs + Code.a],
                 IrepSym(vm.pc_irep, Code.b)).m = 0

\* What every such step does, whatever R(A) holds.
MissingSendRest ==
  LET recv == vm.regs[vm.current_regs + Code.a] IN
  /\ console' = [ msg |-> "No method",
                  cls |-> classes[find_class_by_object(CurM(0), recv)].sym_id,
                  sym |-> IrepSym(vm.pc_irep, Code.b) ]
  /\ vm'.regs[vm.current_regs + Code.a] = recv
  /\ frames' = frames
  /\ vm'.callinfo_tail = vm.callinfo_tail
  /\ vm'.current_regs = vm.current_regs
  /\ vm'.pc_irep = vm.pc_irep
  /\ vm'.pc = vm.pc + 1
  /\ vm'.flag_preemption = vm.flag_preemption
  /\ ret' = 0

C8_ResultRegisterEmpty ==
  prog = "nope" /\ vm.pc = 2 /\ runpc # "fault" => vm.regs[1].tt = "EMPTY"

\* C8 amended: after the SEND of 5.nope R(A) still holds the receiver
\* (FIXNUM, 5), the "No method" line names Fixnum and nope, and the VM goes
\* on: the handler returned 0, and once the next instruction has run R2 is 7.
C8_ResultRegisterKeepsReceiver ==
  /\ prog = "nope" /\ vm.pc \in {2, 3}
       => /\ vm.regs[1] = Val("FIXNUM", 5)
          /\ console = [ msg |-> "No method", cls |-> str_to_symid("Fixnum"),
                         sym |-> str_to_symid("nope") ]
          /\ runpc # "fault"
          /\ ret = 0
          /\ vm.callinfo_tail = 0
  /\ prog = "nope" /\ vm.pc = 3 => vm.regs[2] = Val("FIXNUM", 7)

\* 5.nope went on to the LOADI after the SEND, the receiver still in R1.
C8_Witness ==
  /\ prog = "nope"
  /\ vm.pc = 3
  /\ gh.last_op = "LOADI"
  /\ vm.regs[1] = Val("FIXNUM", 5)
  /\ vm.regs[2] = Val("FIXNUM", 7)

\* C9: STOP leaves every one of the MAX_REGS_SIZE slots EMPTY, with the
\* refcount of every allocated cell lowered by the number of slots that held
\* it, and raises the flag; ABORT raises the flag and changes no register and
\* no cell; after either the run fetches no further opcode and its next step
\* is the return.
C9_StopAndAbort ==
  /\ [][OpDone /\ Code.op = "STOP" =>
          /\ \A i \in RegIds : vm'.regs[i].tt = "EMPTY"
          /\ \A c \in CellIds :
               cells[c].used /\ DataRefs(c) = 0 =>
                 IF cells[c].ref_count > RegRefs(c)
                   THEN cells'[c].used
                        /\ cells'[c].ref_count = cells[c].ref_count - RegRefs(c)
                   ELSE ~cells'[c].used
          /\ vm'.flag_preemption = 1]_vars
  /\ [][OpDone /\ Code.op = "ABORT" =>
          /\ vm'.regs = vm.regs
          /\ cells' = cells
          /\ vm'.flag_preemption = 1]_vars
  /\ [](gh.last_op \in {"STOP", "ABORT"} => runpc # "exec")
  /\ [][gh.last_op \in {"STOP", "ABORT"} /\ runpc = "check" /\ runpc' # runpc
          => runpc' = "ready"]_vars

\* The run of a = [10, 20, 30] has returned after STOP: all slots EMPTY, also
\* the last one, far outside the IREP's four registers, and the array freed.
C9_Witness ==
  /\ prog = "array"
  /\ gh.last_op = "STOP"
  /\ runpc = "ready"
  /\ \A i \in RegIds : vm.regs[i].tt = "EMPTY"
  /\ \A c \in CellIds : cells[c].tt = "ARRAY" => ~cells[c].used
  /\ \E c \in CellIds : cells[c].tt = "ARRAY"

\* C10 as stated: when the run of LOADI R1,1; LOADI R2,2; ADD R1; STOP has
\* returned after STOP, R(1) is (FIXNUM, 3).
C10_FinalR1IsThree ==
  prog = "add" /\ runpc = "ready" /\ ret = -1 => vm.regs[1] = Val("FIXNUM", 3)

\* C10 amended: R(1) is (FIXNUM, 3) once ADD has run and until STOP runs;
\* in the final state, after STOP, the slot is EMPTY (its payload word still
\* 3).
C10_R1IsThreeUntilStop ==
  /\ prog = "add" /\ vm.pc = 3 => vm.regs[1] = Val("FIXNUM", 3)
  /\ prog = "add" /\ runpc = "ready" /\ ret = -1
       => vm.regs[1] = Val("EMPTY", 3) /\ vm.pc = 4

\* The run of the program has returned after STOP.
C10_Witness ==
  /\ prog = "add"
  /\ runpc = "ready"
  /\ ret = -1
  /\ gh.last_op = "STOP"
  /\ vm.regs[1].v = 3

\* A step in which op_array ran and returned 0.
ArrayStep == OpDone /\ Code.op = "ARRAY" /\ ret' = 0

\* What op_array does apart from the refcounts of the moved values: R(A) is
\* a new array cell with refcount 1 holding the C values of R(B).., in order,
\* and every source slot other than R(A) is EMPTY.
ArrayBuilt ==
  LET ra == vm.current_regs + Code.a
      rb == vm.current_regs + Code.b
      id == vm'.regs[ra].v
  IN  /\ vm'.regs[ra].tt = "ARRAY"
      /\ id \in CellIds
      /\ ~cells[id].used
      /\ cells'[id].used
      /\ cells'[id].tt = "ARRAY"
      /\ cells'[id].ref_count = 1
      /\ Len(cells'[id].data) = Code.c
      /\ \A i \in 1..Code.c : cells'[id].data[i] = vm.regs[rb + i - 1]
      /\ \A i \in rb..(rb + Code.c - 1) : i # ra => vm'.regs[i] = ZeroValue

\* The heap cells the moved values refer to.
MovedCells ==
  { vm.regs[i].v : i \in { j \in (vm.current_regs + Code.b)..
                                  (vm.current_regs + Code.b + Code.c - 1) :
                             vm.regs[j].tt \in HeapTags } }

\* 1 when op_array's release of the previous R(A) drops a reference to q:
\* R(A) lies outside the moved slots and referred to q.
OldDestRef(q) ==
  LET ra == vm.current_regs + Code.a
      rb == vm.current_regs + Code.b
  IN  IF /\ (ra < rb \/ ra >= rb + Code.c)
         /\ vm.regs[ra].tt \in HeapTags
         /\ vm.regs[ra].v = q
        THEN 1 ELSE 0

\* A step of an opcode that overwrites one register, R(A), whose value was
\* the last reference to an array.
ArrayReleaseStep ==
  /\ OpDone
  /\ Code.op \in {"LOADNIL", "LOADI", "LOADT", "LOADF"}
  /\ vm.regs[vm.current_regs + Code.a].tt = "ARRAY"
  /\ cells[vm.regs[vm.current_regs + Code.a].v].used
  /\ cells[vm.regs[vm.current_regs + Code.a].v].ref_count = 1

\* The number of elements of the cells freed by the step that refer to q.
FreedRefs(q) ==
  Cardinality({ dk \in UNION { { << d, k >> : k \in DOMAIN cells[d].data } :
                                 d \in { x \in CellIds :
                                           cells[x].used /\ ~cells'[x].used } } :
                  /\ cells[dk[1]].data[dk[2]].tt \in HeapTags
                  /\ cells[dk[1]].data[dk[2]].v = q })

\* Releasing the array frees it and releases each element exactly once.
ArrayReleased ==
  LET d == vm.regs[vm.current_regs + Code.a].v
  IN  /\ ~cells'[d].used
      /\ \A q \in CellIds :
           cells[q].used =>
             cells'[q].ref_count =
               cells[q].ref_count - FreedRefs(q) - (IF q = d THEN 1 ELSE 0)

\* C11 as stated: ARRAY A B C makes a new array cell with refcount 1 and
\* n_stored = C holding the values of R(B)..R(B+C-1) in order, leaves the
\* refcount of every moved heap value unchanged and every source slot other
\* than R(A) EMPTY; releasing the array releases each element exactly once.
C11_ArrayKeepsRefcounts ==
  /\ [][ArrayStep =>
          /\ ArrayBuilt
          /\ \A q \in MovedCells : cells'[q].ref_count = cells[q].ref_count]_vars
  /\ [][ArrayReleaseStep => ArrayReleased]_vars

\* C11 amended: as stated, except that the refcount of a moved heap value is
\* one less when the previous value of R(A), a slot outside R(B)..R(B+C-1),
\* referred to the same cell: op_array releases that value.
C11_ArrayMovesRegisters ==
  /\ [][ArrayStep =>
          /\ ArrayBuilt
          /\ \A q \in MovedCells :
               cells'[q].ref_count = cells[q].ref_count - OldDestRef(q)]_vars
  /\ [][ArrayReleaseStep => ArrayReleased]_vars

\* The array [x] was built into R1, the slot that held x, from R2: x is an
\* element of the new array only, after an earlier [x] was released.
C11_Witness ==
  /\ prog = "arrays"
  /\ runpc = "check"
  /\ gh.last_op = "ARRAY"
  /\ vm.pc = 7
  /\ ret = 0
  /\ vm.regs[1].tt = "ARRAY"
  /\ vm.regs[2] = ZeroValue
  /\ Len(cells[vm.regs[1].v].data) = 1
  /\ cells[vm.regs[1].v].data[1].tt = "ARRAY"
  /\ cells[cells[vm.regs[1].v].data[1].v].used
  /\ cells[cells[vm.regs[1].v].data[1].v].ref_count = 1
  /\ cells[cells[vm.regs[1].v].data[1].v].data = << Val("FIXNUM", 1) >>

\* C12: in y = 10; p = ->{ y }; p.call; y = 20; p.call at top level, the
\* lambda's GETUPVAR (C = 0) completes and reads the top-level slot of y: the
\* first call returns 10 and the second returns 20 (no allocation failing).
C12_UpvarReadsLiveSlot ==
  prog = "upvar" /\ ~gh.enomem =>
    /\ ~(gh.last_op = "GETUPVAR" /\ runpc = "fault")
    /\ (runpc = "check" /\ gh.last_op = "RETURN" /\ vm.pc_irep = "upvar"
          => /\ vm.pc = 4 => vm.regs[3] = Val("FIXNUM", 10)
             /\ vm.pc = 7 => vm.regs[3] = Val("FIXNUM", 20))

\* The cells of the method list that starts at proc p, and whether the walk
\* ended at NULL without meeting a cell twice.
RECURSIVE ListWalk(_, _, _)
ListWalk(cs, p, seen) ==
  IF p = 0 THEN [acyclic |-> TRUE, procs |-> seen]
  ELSE IF p \in seen THEN [acyclic |-> FALSE, procs |-> seen]
  ELSE ListWalk(cs, cs[p].next, seen \cup {p})

\* A step in which op_method ran to its end.
MethodStep == OpDone /\ Code.op = "METHOD"

\* C13: every class's method list is finite and acyclic and holds at most
\* one proc per method symbol, and right after METHOD A B the proc found for
\* symbol B in the class of R(A) is the proc that was in R(A+1).
C13_MethodListsUnique ==
  /\ [](\A k \in DOMAIN classes :
          LET w == ListWalk(cells, classes[k].procs, {})
          IN  /\ w.acyclic
              /\ \A a, b \in w.procs :
                   a # b => cells[a].sym_id # cells[b].sym_id)
  /\ [][MethodStep =>
          LET ra == vm.current_regs + Code.a
              cls == vm.regs[ra].v
              w == ListWalk(cells', classes'[cls].procs, {})
          IN  /\ w.acyclic
              /\ \E a \in w.procs :
                   /\ a = vm.regs[ra + 1].v
                   /\ cells'[a].sym_id = IrepSym(vm.pc_irep, Code.b)]_vars

\* The bit of vm id in a bitmap.
IdBit(bm, id) ==
  bm[((id - 1) \div FREE_BITMAP_WIDTH) + 1][((id - 1) % FREE_BITMAP_WIDTH) + 1]

\* C14: at most MAX_VM_COUNT VMs are open at the same time, and with
\* MAX_VM_COUNT VMs open a further mrbc_vm_open returns NULL and leaves the
\* id bitmap unchanged.
C14_AtMostMaxVmCount ==
  /\ [](OpenCount <= MAX_VM_COUNT)
  /\ [][OpenCount = MAX_VM_COUNT /\ host'.op = "open"
          => host'.ret = 0 /\ free_vm_bitmap' = free_vm_bitmap]_vars

\* C15 as stated: mrbc_vm_close clears the VM's id in the bitmap, frees the
\* VM's IREP tree and reclaims every block tagged with the VM's id.
C15_CloseReclaimsBlocks ==
  [][host'.op = "close" =>
       /\ IdBit(free_vm_bitmap', host'.id) = 0
       /\ vm_tab'[host'.id].irep = 0
       /\ pool'.tagged[host'.id] = 0]_vars

\* C15 amended: mrbc_vm_close clears the VM's id in the bitmap, so that a
\* later mrbc_vm_open obtains the lowest free id, and frees the IREP tree
\* and the struct VM that mrbc_vm_open allocated; it frees no tagged block.
\* mrbc_vm_end is what reclaims the blocks tagged with the VM's id.
C15_CloseFreesIdAndIrep ==
  /\ [][host'.op = "close" =>
          /\ IdBit(free_vm_bitmap, host'.id) = 1
          /\ IdBit(free_vm_bitmap', host'.id) = 0
          /\ \A id \in VmIds \ {host'.id} :
               IdBit(free_vm_bitmap', id) = IdBit(free_vm_bitmap, id)
          /\ vm_tab'[host'.id] = ClosedVm
          /\ pool' = pool
          /\ UsedPool([bitmap |-> free_vm_bitmap', tab |-> vm_tab', pool |-> pool'])
               = UsedPool(HostState) - vm_tab[host'.id].irep
                                     - vm_tab[host'.id].flag_need_memfree]_vars
  /\ [][host'.op = "end" =>
          /\ pool'.tagged[host'.id] = 0
          /\ free_vm_bitmap' = free_vm_bitmap
          /\ vm_tab' = vm_tab]_vars
  /\ [][host'.op = "open" /\ host'.ret # 0 =>
          /\ IdBit(free_vm_bitmap, host'.ret) = 0
          /\ IdBit(free_vm_bitmap', host'.ret) = 1
          /\ \A id \in VmIds : id < host'.ret => IdBit(free_vm_bitmap, id) = 1]_vars

\* VM 1 was closed without mrbc_vm_end while VM 2 stayed open, and the next
\* mrbc_vm_open obtained id 1 again; a block tagged 1 by the closed VM is
\* still allocated.
C15_Witness ==
  /\ host = [ op |-> "open", id |-> 1, ret |-> 1 ]
  /\ vm_tab[1].open
  /\ vm_tab[1].irep = 0
  /\ vm_tab[2].open
  /\ pool.tagged[1] > 0

\* A step that is a call of mrbc_vm_begin.
BeginStep == runpc = "opened" /\ runpc' = "ready"

\* What mrbc_vm_begin leaves apart from the slots R(1)..: pc = 0, pc_irep
\* the root IREP, register base 0, R(0) = (CLASS, Object), no call-info
\* frame, target_class Object and flag_preemption 0.
BegunVm ==
  /\ vm'.pc = 0
  /\ vm'.pc_irep = vm.irep
  /\ vm'.pc_irep = prog
  /\ vm'.current_regs = 0
  /\ vm'.regs[0] = Val("CLASS", mrbc_class_object)
  /\ vm'.callinfo_tail = 0
  /\ vm'.target_class = mrbc_class_object
  /\ vm'.flag_preemption = 0

\* C16 as stated: after mrbc_vm_begin pc = 0, pc_irep is the root IREP, the
\* register base is slot 0, R(0) = (CLASS, Object), every other slot is
\* zeroed (EMPTY), the call-info stack is empty, target_class is Object and
\* flag_preemption is 0.
C16_BeginZeroesRegisters ==
  [][BeginStep =>
       /\ BegunVm
       /\ \A i \in RegIds \ {0} : vm'.regs[i] = ZeroValue]_vars

\* C16 amended: as stated, except that every slot other than R(0) is
\* (NIL, 0), not EMPTY.
C16_BeginSetsRegistersNil ==
  [][BeginStep =>
       /\ BegunVm
       /\ \A i \in RegIds \ {0} : vm'.regs[i] = Val("NIL", 0)]_vars

\* mrbc_vm_begin has been called on the VM of program add and no run has
\* started.
C16_Witness ==
  /\ prog = "add"
  /\ runpc = "ready"
  /\ gh = InitGh
  /\ ret = 0
  /\ vm.pc_irep = "add"
  /\ vm.regs[0] = Val("CLASS", mrbc_class_object)
  /\ vm.regs[1] = Val("NIL", 0)
  /\ vm.regs[MAX_REGS_SIZE - 1] = Val("NIL", 0)

Sign(n) == IF n < 0 THEN -1 ELSE IF n > 0 THEN 1 ELSE 0

\* C17: for two FIXNUM values, and for two SYMBOL values, mrbc_compare
\* returns 0 iff v1 = v2, a negative number iff v1 < v2 and a positive
\* number iff v1 > v2, over the full range of the payload.
C17_CompareIntegersBySign ==
  cmp.done /\ cmp.v1.tt = cmp.v2.tt /\ cmp.v1.tt \in {"FIXNUM", "SYMBOL"} =>
    /\ cmp.res = 0 <=> cmp.v1.v = cmp.v2.v
    /\ cmp.res < 0 <=> cmp.v1.v < cmp.v2.v
    /\ cmp.res > 0 <=> cmp.v1.v > cmp.v2.v

\* C18: mrbc_compare returns 0 for (EMPTY, NIL) and (NIL, EMPTY); for every
\* other pair of different tags that is not a FIXNUM/FLOAT mix the sign of
\* the result is the sign of the tags' difference in the tag order; two
\* CLASS, OBJECT or PROC values compare equal iff they are the same handle.
C18_CompareTagsAndHandles ==
  cmp.done =>
    LET t1 == cmp.v1.tt
        t2 == cmp.v2.tt
    IN  /\ {t1, t2} = {"EMPTY", "NIL"} => cmp.res = 0
        /\ ( /\ t1 # t2
             /\ {t1, t2} # {"EMPTY", "NIL"}
             /\ {t1, t2} # {"FIXNUM", "FLOAT"} )
             => Sign(cmp.res) = Sign(TagOrd(t1) - TagOrd(t2))
        /\ (t1 = t2 /\ t1 \in {"CLASS", "OBJECT", "PROC"})
             => (cmp.res = 0 <=> cmp.v1.v = cmp.v2.v)

\* EMPTY was compared with NIL and the result was 0.
C18_Witness ==
  /\ cmp.done
  /\ cmp.v1 = Val("EMPTY", 0)
  /\ cmp.v2 = Val("NIL", 0)
  /\ cmp.res = 0

\* C19: DIV on two fixnums with divisor R(A+1) = 0 does not crash the VM:
\* the opcode completes and the dispatcher goes on to the next opcode.
C19_DivByZeroDoesNotCrash ==
  prog = "div" => ~(gh.last_op = "DIV" /\ runpc = "fault")

\* C20: after every opcode pc is an index inside the code of the executing
\* IREP, 0 <= pc < its instruction count, whatever the opcode sequence;
\* stated for the compiled program "few", whose method is called with fewer
\* arguments than ENTER expects, and leaving out STOP, after which nothing
\* is fetched.
C20_PcStaysInCode ==
  prog = "few" /\ runpc = "check" /\ gh.last_op # "STOP" => PcInBounds

\* A load or get opcode completes.
LoadOps ==
  { "MOVE", "LOADL", "LOADI", "LOADNIL", "LOADSELF", "LOADT", "LOADF",
    "GETCONST", "GETUPVAR" }

LoadStep ==
  /\ runpc = "exec" /\ runpc' = "check"
  /\ PcInBounds /\ Code.op \in LoadOps

\* C21: EMPTY is never observable by script code: the destination register
\* of a load or get opcode never holds the EMPTY tag afterwards, also after
\* GETCONST of an uninitialised constant; stated for the program "const".
C21_LoadNeverLeavesEmpty ==
  [][prog = "const" /\ LoadStep
       => vm'.regs[vm.current_regs + Code.a].tt # "EMPTY"]_vars

\* C22: LAMBDA, CALL of that proc and the matching RETURN NORMAL leave every
\* register of the caller other than the result slot with the value and the
\* refcount it had: in "opcall" R1 still holds the array built before the
\* LAMBDA, with refcount 1, when the proc has returned.
C22_CallReturnKeepsCallerRegisters ==
  /\ prog = "opcall" /\ ~gh.enomem
  /\ runpc = "check" /\ gh.last_op = "RETURN" /\ vm.pc_irep = "opcall"
  => /\ vm.regs[1].tt = "ARRAY"
     /\ vm.regs[1].v \in CellIds
     /\ cells[vm.regs[1].v].used
     /\ cells[vm.regs[1].v].ref_count = 1

\* RETURN completes.
ReturnStep ==
  /\ runpc = "exec" /\ runpc' = "check"
  /\ PcInBounds /\ Code.op = "RETURN"

\* C23: RETURN A B leaves in R(0) of the returning window exactly the value
\* R(A) held before the instruction, same tag and payload, for every A,
\* A = 0 included.
C23_ReturnMovesValueToR0 ==
  [][ReturnStep
       => vm'.regs[vm.current_regs] = vm.regs[vm.current_regs + Code.a]]_vars

\* RETURN with B = NORMAL completes.
NormalReturn == ReturnStep /\ Code.b = OP_R_NORMAL

\* Slot i of the returning window is released by the step: its tag is EMPTY,
\* and a live heap cell it held (other than the returned value, which moved
\* to R(0)) has a lower refcount or is freed.
SlotReleased(i) ==
  LET old == vm.regs[vm.current_regs + i] IN
  /\ vm'.regs[vm.current_regs + i].tt = "EMPTY"
  /\ (i # Code.a /\ old.tt \in HeapTags /\ old.v \in CellIds /\ cells[old.v].used
        => \/ ~cells'[old.v].used
           \/ cells'[old.v].ref_count < cells[old.v].ref_count)

\* C24 as stated: after RETURN NORMAL from a callee whose IREP has nregs
\* registers, every slot R(1)..R(nregs) of its window has been released.
C24_ReturnReleasesThroughNregs ==
  [][NormalReturn
       => \A i \in 1..Ireps[vm.pc_irep].nregs :
            vm.current_regs + i \in DOMAIN vm.regs => SlotReleased(i)]_vars

\* C24, amended: the slots released are R(1)..R(nregs-1), the registers of
\* the callee's IREP above R(0).
C24_ReturnReleasesWindow ==
  [][NormalReturn
       => \A i \in 1..(Ireps[vm.pc_irep].nregs - 1) : SlotReleased(i)]_vars

\* f([1]) has returned: the slots of f's window above R(0), among them the
\* one that held the argument, are EMPTY, the array is freed, and the slot
\* behind the window is as mrbc_vm_begin left it.
C24_Witness ==
  /\ prog = "args" /\ runpc = "check" /\ gh.last_op = "RETURN"
  /\ vm.pc_irep = "args"
  /\ vm.regs[1] = Val("FIXNUM", 42)
  /\ \A i \in 2..4 : vm.regs[i].tt = "EMPTY"
  /\ vm.regs[2].v \in CellIds /\ ~cells[vm.regs[2].v].used
  /\ vm.regs[5] = mrbc_nil_value

\* The frames on the call-info stack fr whose top is tail.
RECURSIVE FrameChain(_, _, _)
FrameChain(fr, tail, n) ==
  IF tail = 0 \/ n = 0 THEN {}
  ELSE {tail} \cup FrameChain(fr, fr[tail].prev, n - 1)

\* RETURN with B = BREAK completes.
BreakReturn == ReturnStep /\ Code.b = OP_R_BREAK

\* C25: RETURN with B = BREAK frees every call-info frame it removes from
\* the stack: a frame that was allocated and is no longer reachable from
\* callinfo_tail afterwards has been freed; stated for runs in which no
\* allocation failed.
C25_BreakFreesRemovedFrames ==
  [][BreakReturn /\ ~gh.enomem
       => \A f \in FrameIds :
            frames[f].used
              /\ f \notin FrameChain(frames', vm'.callinfo_tail, MaxFrames)
            => ~frames'[f].used]_vars

\* An arithmetic or comparison opcode enters a script-defined method.
OperatorEnters ==
  /\ runpc = "exec" /\ runpc' = "check"
  /\ PcInBounds /\ Code.op \in {"ADD", "DIV"}
  /\ vm'.callinfo_tail # vm.callinfo_tail
  /\ vm'.pc = 0 /\ vm'.current_regs = vm.current_regs + Code.a

\* C26: when an arithmetic or comparison opcode on a non-numeric pair
\* resolves to a script-defined method, the callee is entered with the
\* receiver in its R(0) and the right operand intact, neither released nor
\* EMPTY, in its R(1).
C26_OperatorCalleeGetsOperand ==
  [][OperatorEnters /\ ~gh.enomem
       => LET rhs == vm.regs[vm.current_regs + Code.a + 1] IN
          /\ vm'.regs[vm'.current_regs] = vm.regs[vm.current_regs + Code.a]
          /\ vm'.regs[vm'.current_regs + 1] = rhs
          /\ (rhs.tt \in HeapTags /\ rhs.v \in CellIds /\ cells[rhs.v].used
                => cells'[rhs.v].used
                   /\ cells'[rhs.v].ref_count = cells[rhs.v].ref_count)]_vars

\* An arithmetic opcode completes on operands that are not a fixnum/float
\* pair (ADDI has the one register operand).
NonNumericOperator ==
  /\ runpc = "exec" /\ runpc' = "check"
  /\ PcInBounds /\ Code.op \in {"ADD", "ADDI", "DIV"}
  /\ \/ vm.regs[vm.current_regs + Code.a].tt \notin {"FIXNUM", "FLOAT"}
     \/ /\ Code.op # "ADDI"
        /\ vm.regs[vm.current_regs + Code.a + 1].tt \notin {"FIXNUM", "FLOAT"}

\* What SEND does with the method named by symbol operand B: it enters a
\* script method, runs a native one, or emits the No-method diagnostic.
ActsAsSend ==
  \/ vm'.callinfo_tail # vm.callinfo_tail
  \/ console' # console /\ console'.msg = "No method"
  \/ find_method(CurM(0), vm.regs[vm.current_regs + Code.a],
                 IrepSym(vm.pc_irep, Code.b)).m > 0

\* C27: when the operands of an arithmetic or comparison opcode are not a
\* fixnum/float pair the handler falls back to SEND: it looks up the method
\* named by symbol operand B on the class of R(A) and invokes it or emits
\* the No-method diagnostic; stated for runs in which no allocation failed.
C27_OperatorFallsBackToSend ==
  [][NonNumericOperator /\ ~gh.enomem /\ ~gh'.enomem => ActsAsSend]_vars

\* The opcodes that store a new value into R(A).
StoreOps ==
  { "MOVE", "LOADL", "LOADI", "LOADNIL", "LOADSELF", "LOADT", "LOADF",
    "ARRAY", "LAMBDA", "RANGE", "TCLASS", "CLASS" }

\* One of them completes and R(A) has a new value.
StoreStep ==
  /\ runpc = "exec" /\ runpc' = "check"
  /\ PcInBounds /\ Code.op \in StoreOps
  /\ vm'.regs[vm.current_regs + Code.a] # vm.regs[vm.current_regs + Code.a]

\* The heap cell R(A) held before the step has lost a reference.
PriorReleased ==
  LET old == vm.regs[vm.current_regs + Code.a] IN
  old.tt \in HeapTags /\ old.v \in CellIds /\ cells[old.v].used
    => \/ ~cells'[old.v].used
       \/ cells'[old.v].ref_count < cells[old.v].ref_count

\* C28: every opcode that stores a new value into R(A) first releases the
\* prior content of R(A), CLASS as the others; stated for the program
\* "classleak".
C28_StoreReleasesPriorContent ==
  [][prog = "classleak" /\ StoreStep => PriorReleased]_vars

\* ENTER completes.
EnterStep ==
  /\ runpc = "exec" /\ runpc' = "check"
  /\ PcInBounds /\ Code.op = "ENTER"

\* C29: ENTER with a non-zero optional field and a frame whose n_args
\* satisfies required <= n_args < required + optional advances pc, from the
\* instruction after ENTER, by exactly n_args - required, never a negative
\* amount; with a zero optional field it leaves pc at the instruction after
\* ENTER.
C29_EnterSkipsGivenDefaults ==
  [][EnterStep
       => LET required == Code.a
              optional == Code.b
              n_args == frames[vm.callinfo_tail].n_args
          IN  /\ optional = 0 => vm'.pc = vm.pc + 1
              /\ (optional > 0 /\ vm.callinfo_tail # 0
                    /\ required <= n_args /\ n_args < required + optional
                  => /\ vm'.pc = vm.pc + 1 + (n_args - required)
                     /\ vm'.pc >= vm.pc + 1)]_vars

\* f(5, 6) has entered f(a, b = 1, c = 2): one of the two optional
\* arguments was given and ENTER has skipped one instruction.
C29_Witness ==
  /\ prog = "opt" /\ runpc = "check" /\ gh.last_op = "ENTER"
  /\ vm.pc_irep = "opt_body" /\ vm.pc = 2
  /\ vm.callinfo_tail # 0 /\ frames[vm.callinfo_tail].n_args = 2

\* SENDB completes with a block slot R(A+C+1) that holds neither NIL nor a
\* PROC.
SendbBadBlock ==
  /\ runpc = "exec" /\ runpc' = "check"
  /\ PcInBounds /\ Code.op = "SENDB"
  /\ vm.regs[vm.current_regs + Code.a + Code.c + 1].tt \notin {"NIL", "PROC"}

\* C30: SENDB whose block slot holds a value that is neither NIL nor a PROC
\* rejects the call: no method is looked up or invoked, no call-info frame
\* is pushed, the registers, the register base and pc_irep are unchanged,
\* and execution continues with the next instruction.
C30_SendbRejectsNonProcBlock ==
  [][SendbBadBlock
       => /\ vm' = [vm EXCEPT !.pc = @ + 1]
          /\ frames' = frames
          /\ cells' = cells
          /\ classes' = classes
          /\ console' = console
          /\ ret' = 0]_vars

\* m(&9) was rejected although m is defined: nothing was entered, the slots
\* of the call are as they were and the next instruction is up.
C30_Witness ==
  /\ prog = "sendb2" /\ runpc = "check" /\ gh.last_op = "SENDB"
  /\ vm.pc_irep = "sendb2" /\ vm.pc = 6
  /\ vm.callinfo_tail = 0 /\ vm.current_regs = 0
  /\ vm.regs[1] = Val("CLASS", mrbc_class_object)
  /\ vm.regs[2] = Val("FIXNUM", 9)
  /\ classes[mrbc_class_object].procs # 0

\* SUPER completes; it has entered a script method.
SuperStep ==
  /\ runpc = "exec" /\ runpc' = "check"
  /\ PcInBounds /\ Code.op = "SUPER"

SuperEnters == SuperStep /\ vm'.callinfo_tail # vm.callinfo_tail

\* C31: SUPER copies self into R(A) and resolves the method of the current
\* frame's mid from the superclass of the class that defines the executing
\* method, so the body that executed SUPER is never the one selected, also
\* when the receiver's class inherits the method without redefining it.
C31_SuperSkipsExecutingMethod ==
  [][SuperEnters /\ ~gh.enomem /\ ~gh'.enomem
       => /\ vm'.regs[vm'.current_regs].tt = vm.regs[vm.current_regs].tt
          /\ vm'.regs[vm'.current_regs].v = vm.regs[vm.current_regs].v
          /\ vm'.pc_irep # vm.pc_irep]_vars

\* C38: executing SUPER does not change the class of the receiver object:
\* the class pointer of every object is after the SUPER what it was before,
\* whether or not a super method was found.
C38_SuperKeepsReceiverClass ==
  [][SuperStep /\ ~gh.enomem /\ ~gh'.enomem
       => \A c \in CellIds :
            cells[c].used /\ cells[c].tt = "OBJECT"
              => cells'[c].cls = cells[c].cls]_vars

\* EXEC completes.
ExecStep ==
  /\ runpc = "exec" /\ runpc' = "check"
  /\ PcInBounds /\ Code.op = "EXEC"

\* What EXEC A Bx is to do: one more frame on the call-info stack, the
\* register base shifted by A, pc 0, target_class the class of R(A).
ExecEnters ==
  /\ vm'.callinfo_tail \in FrameIds
  /\ vm'.callinfo_tail # vm.callinfo_tail
  /\ frames'[vm'.callinfo_tail].prev = vm.callinfo_tail
  /\ UsedFrames(frames') = UsedFrames(frames) \cup {vm'.callinfo_tail}
  /\ Cardinality(UsedFrames(frames')) = Cardinality(UsedFrames(frames)) + 1
  /\ vm'.current_regs = vm.current_regs + Code.a
  /\ vm'.pc = 0
  /\ vm'.target_class =
       find_class_by_object(CurM(0), vm.regs[vm.current_regs + Code.a])

\* C32: EXEC A Bx pushes exactly one call-info frame, shifts the register
\* base by A, sets pc to 0 and target_class to the class of R(A), so that
\* the matching RETURN NORMAL finds the caller's pc, pc_irep, register base
\* and target_class in that frame; stated for the program "class".
C32_ExecPushesOneFrame ==
  [][prog = "class" /\ ExecStep => ExecEnters]_vars

(* ------------------------------------------------------------------ *)
(* mrbc_dup and mrbc_release on their own                              *)
(* ------------------------------------------------------------------ *)

\* The slots the calls are made on, and the two cells they refer to: a
\* proc (cell 2) and an array (cell 3) that holds the proc.
RefSlots == {1, 2, 3}

RefProc == Val("PROC", 2)

RefArray == Val("ARRAY", 3)

\* The reference counts the proc is found with: few references, or as many
\* as the counter can hold.
RefCounts == {1, 2, 3, REF_MAX - 1, REF_MAX}

\* How many of the slots hold v.
SlotsHolding(regfile, v) == Cardinality({ i \in RefSlots : regfile[i] = v })

\* A VM between two instructions whose slots 1..3 hold references: every
\* cell counts at least the references the slots and the array hold.
InitRefs ==
  /\ prog = "off"
  /\ mem_cap = MaxCells
  /\ \E s \in [RefSlots -> {ZeroValue, RefProc, RefArray}],
        np \in RefCounts, na \in {1, 2, 3} :
       /\ np >= SlotsHolding(s, RefProc) + 1
       /\ na >= SlotsHolding(s, RefArray)
       /\ vm = [OpenedVm("off") EXCEPT
                  !.regs = [ i \in RegIds |-> IF i \in RefSlots THEN s[i]
                                              ELSE ZeroValue ]]
       /\ cells = [InitCells EXCEPT
                     ![2] = [ProcCell("(lambda)", 0, "", "m_body")
                               EXCEPT !.ref_count = np],
                     ![3] = [FreeCell EXCEPT !.used = TRUE, !.tt = "ARRAY",
                               !.ref_count = na, !.data = << RefProc >>]]
  /\ frames = [ i \in FrameIds |-> FreeFrame ]
  /\ classes = InitClassTable
  /\ console = NoLine
  /\ runpc = "opened"
  /\ ret = 0
  /\ gh = InitGh
  /\ OneVmOpen
  /\ cmp = NoCompare

\* The machine the calls of value.c are made on: no instruction is fetched.
RefM == [CurM(0) EXCEPT !.vm = vm]

\* The state after a call of value.c: a failed assertion stops the firmware.
RefCommit(M, call, i, j) ==
  /\ host' = [ op |-> call, id |-> i, ret |-> j ]
  /\ IF M.abort
       THEN /\ runpc' = "fault"
            /\ UNCHANGED << vm, cells >>
       ELSE /\ runpc' = runpc
            /\ vm' = M.vm
            /\ cells' = M.cells
  /\ UNCHANGED << prog, mem_cap, frames, classes, console, ret, gh,
                  free_vm_bitmap, vm_tab, pool, cmp >>

\* mrbc_dup(&regs[i]) and the copy of regs[i] into the empty slot j that the
\* call is made for.
RefDup ==
  \E i \in RefSlots, j \in RefSlots :
    /\ runpc = "opened"
    /\ vm.regs[i].tt \in HeapTags
    /\ vm.regs[j].tt = "EMPTY"
    /\ RefCommit(SetReg(DupReg(RefM, i), j, vm.regs[i]), "dup", i, j)

\* mrbc_release(&regs[i])
RefRelease ==
  \E i \in RefSlots :
    /\ runpc = "opened"
    /\ RefCommit(mrbc_release(RefM, i), "release", i, 0)

NextRefs == RefDup \/ RefRelease

SpecRefs == InitRefs /\ [][NextRefs]_vars

\* C33: mrbc_dup of a value whose cell counts REF_MAX references returns
\* with the count still REF_MAX: the counter does not wrap and the firmware
\* is not stopped.
C33_DupSaturatesAtRefMax ==
  [][ /\ host'.op = "dup"
      /\ vm.regs[host'.id].tt \in HeapTags
      /\ cells[vm.regs[host'.id].v].ref_count = REF_MAX
      => /\ runpc' # "fault"
         /\ cells'[vm.regs[host'.id].v].ref_count = REF_MAX ]_vars

\* A step that is a call of mrbc_release on slot i.
ReleaseStepOn(i) == host'.op = "release" /\ host'.id = i /\ runpc = "opened"

\* What one mrbc_release of slot i does: the cell the slot refers to counts
\* one reference less and is freed iff that was the last one, the slot is
\* EMPTY afterwards, and a slot that holds no heap value changes no cell.
ReleaseDecrementsOnce(i) ==
  LET v == vm.regs[i] IN
  /\ runpc' = "opened"
  /\ vm'.regs[i].tt = "EMPTY"
  /\ IF v.tt \in HeapTags
       THEN /\ cells'[v.v].ref_count = cells[v.v].ref_count - 1
            /\ cells'[v.v].used = (cells[v.v].ref_count # 1)
       ELSE cells' = cells

\* mrbc_dup of slot i, the copy into slot j and mrbc_release of slot j.
DupThenRelease(i, j) ==
  mrbc_release(SetReg(DupReg(RefM, i), j, vm.regs[i]), j)

\* Every slot that refers to a live cell can be duplicated and the copy
\* released with no assertion failing and the heap as it was.
DupReleaseBalanced ==
  \A i \in RefSlots, j \in RefSlots :
    (runpc = "opened" /\ vm.regs[i].tt \in HeapTags /\ vm.regs[j].tt = "EMPTY")
      => /\ ~DupThenRelease(i, j).abort
         /\ DupThenRelease(i, j).cells = cells

\* C34: mrbc_release takes exactly one reference from the cell, frees the
\* cell iff none is left and leaves the slot EMPTY, so that a second release
\* of the slot changes nothing; and mrbc_dup followed by mrbc_release of
\* the copy leaves the reference count as it was and the cell alive.
C34_ReleaseUndoesDup ==
  /\ [][\A i \in RefSlots : ReleaseStepOn(i) => ReleaseDecrementsOnce(i)]_vars
  /\ []DupReleaseBalanced

\* The call returned a VM: its id is not 0, no open VM holds it, and the
\* VMs that were open keep their ids.
OpenGivesFreshId ==
  /\ host'.ret \in VmIds
  /\ ~vm_tab[host'.ret].open
  /\ vm_tab'[host'.ret].open
  /\ \A id \in VmIds \ {host'.ret} : vm_tab'[id] = vm_tab[id]

\* The call returned NULL: the bitmap, the VMs and the pool are as before.
OpenFailedClean ==
  /\ free_vm_bitmap' = free_vm_bitmap
  /\ vm_tab' = vm_tab
  /\ pool' = pool

\* C35: whatever mrbc_vm_open and mrbc_vm_close calls were made, a VM that
\* mrbc_vm_open returns has an id that is not 0 and that no other open VM
\* holds, and a call that returns NULL leaves the bitmap and every VM
\* structure as they were.
C35_VmIdsDistinct ==
  [][host'.op = "open" =>
       IF host'.ret = 0 THEN OpenFailedClean ELSE OpenGivesFreshId]_vars

\* Every id is taken by an open VM and the last call of mrbc_vm_open, made
\* with a caller-supplied structure, returned NULL.
C35_Witness ==
  /\ host.op = "open"
  /\ host.ret = 0
  /\ \A id \in VmIds : vm_tab[id].open
  /\ \A w \in 1..BitmapWords : free_vm_bitmap[w] = Not32(Word32Zero)

\* C36: whenever an instruction is about to execute, at any depth of calls,
\* the base plus the highest register index its handler touches is below
\* MAX_REGS_SIZE; stated for the program "recur".
C36_WindowInsideRegisterFile ==
  (prog = "recur" /\ runpc = "exec" /\ PcInBounds)
    => vm.current_regs + TopReg(Code) < MAX_REGS_SIZE

\* C39: EXEC A Bx enters child Bx of the IREP that executes the EXEC.
C39_ExecEntersChildOfCurrentIrep ==
  [][ExecStep => vm'.pc_irep = Ireps[vm.pc_irep].reps[Code.b + 1]]_vars

\* mrbc_compare of the two values of the last call taken in the other order
\* gives the opposite sign.
CompareAntisymmetric ==
  \A back \in mrbc_compare(cmp.v2, cmp.v1) : Sign(cmp.res) = -Sign(back)

\* C37: mrbc_compare is antisymmetric, and in particular a value compared
\* with itself gives 0, a slot whose tag is EMPTY included; stated for the
\* calls made with twice the same value.
C37_CompareWithItselfIsZero ==
  (cmp.done /\ cmp.v1 = cmp.v2) => (cmp.res = 0 /\ CompareAntisymmetric)

\* A RANGE whose allocation of the range got no memory.
RangeFails ==
  /\ runpc = "exec" /\ runpc' = "check"
  /\ PcInBounds /\ Code.op = "RANGE"
  /\ ~gh.enomem /\ gh'.enomem

\* C40: a RANGE A B C whose allocation fails leaves the heap as it was: the
\* cells R(B) and R(B+1) refer to count the references they counted before,
\* and R(A) is unchanged.
C40_FailedRangeLeavesHeap ==
  [][RangeFails =>
       /\ \A i \in {Code.b, Code.b + 1} :
            LET v == vm.regs[vm.current_regs + i] IN
            v.tt \in HeapTags => cells'[v.v].ref_count = cells[v.v].ref_count
       /\ vm'.regs[vm.current_regs + Code.a] = vm.regs[vm.current_regs + Code.a]
       /\ ret' = -1 ]_vars

====
